---- MODULE Spec2Model ----
(***************************************************************************)
(* Model of the MB-TSP route-planning service: the grid shortest-path      *)
(* search (astar.py), the all-pairs distance builder (map_processor.py),   *)
(* the tour solver (tsp_solver.py) and the job handlers                    *)
(* (rabbitmq_handler.py).                                                  *)
(*                                                                         *)
(* Python's Optional[int] is modelled as a tuple: <<>> is None and <<v>>   *)
(* is the integer v.  Grid positions are <<row, col>>, zero-based as in    *)
(* the source.                                                             *)
(***************************************************************************)
EXTENDS Integers, Sequences, FiniteSets, TLC

VARIABLES
    a_pc,        \* astar run: "init" before the call, "done" after it
    a_grid,      \* astar run: the grid argument (row -> col -> cell)
    a_start,     \* astar run: start_pos
    a_end,       \* astar run: end_pos
    a_result,    \* astar run: the returned Optional[int]
    s_pc,        \* solver functions: "init", then the function last applied
    s_points,    \* solver functions: the points argument
    s_distances, \* solver functions: the distances argument
    s_start,     \* solver functions: the start_point argument, 0 for None
    s_path,      \* solver functions: what solve_tsp_nearest_neighbor returned
    s_result,    \* solver functions: what the function last applied returned
    t_pc,        \* solve_tsp: "call", "heuristic" (in the loop of lines 165-177), "done"
    t_points,    \* solve_tsp: the points argument
    t_distances, \* solve_tsp: the distances argument
    t_tried,     \* solve_tsp_heuristic: the start indices the loop has used
    t_best,      \* solve_tsp_heuristic: best_path and best_distance
    t_completed, \* whether a nearest-neighbor construction has returned a path
    t_attempts,  \* solve_tsp_heuristic: [turns, failed, lowest], the turns
                 \* of the loop so far, whether one of them took line 168,
                 \* and the least total of path after line 171
    t_result,    \* solve_tsp: [kind, path], kind "tour", "none" or "raise"
    m_pc,        \* process_map: "call", "collect" (lines 100-106), "done", "raised"
    m_grid,      \* process_map: the grid argument, normalized in place
    m_tasks,     \* process_map: tasks
    m_pending,   \* process_map: the indices in tasks of the futures not yet collected
    m_dropped,   \* process_map: the indices in tasks of the futures that raised
    m_order,     \* process_map: the indices in tasks of the records of distances
    m_distances, \* process_map: distances
    m_file,      \* the file of the map: None, Some(records) or Truncated
    m_result,    \* process_map: the returned list, None before the return
    j_consuming, \* whether the consumer thread is alive
    j_files,     \* mapid -> data/<mapid>.json: None, Some(records) or Truncated
    j_delivered, \* how many job messages have been delivered
    j_last,      \* the job delivered last: handler, body, trace, raised
    d_pc,        \* distance store: "init", "saved", "loaded", "unsaved", ...
    d_distances, \* distance store: the list given to save_distances
    d_file,      \* distance store: the file: None, Some(records) or Truncated
    d_loaded,    \* distance store: the dictionary load_distances returned
    g_pc,        \* grid functions: "init", "once", "twice", "tasks"
    g_grid,      \* grid functions: the grid as it was received
    g_once,      \* grid functions: the grid after normalize_grid
    g_twice,     \* grid functions: the grid after a second normalize_grid
    g_tasks,     \* grid functions: tasks of process_map (lines 68-83)
    o_pc,        \* improvement loops: "2opt", "3opt", "done", "raised"
    o_distances, \* improvement loops: the distances argument
    o_path,      \* improvement loops: the path argument
    o_best,      \* improvement loops: best_path
    o_before,    \* improvement loops: best_path before the last pass
    o_improved,  \* improvement loops: improved
    o_iterations \* improvement loops: iterations

a_vars == <<a_pc, a_grid, a_start, a_end, a_result>>
s_vars == <<s_pc, s_points, s_distances, s_start, s_path, s_result>>
t_vars == <<t_pc, t_points, t_distances, t_tried, t_best, t_completed,
           t_attempts, t_result>>
m_vars == <<m_pc, m_grid, m_tasks, m_pending, m_dropped, m_order, m_distances,
            m_file, m_result>>
j_vars == <<j_consuming, j_files, j_delivered, j_last>>
d_vars == <<d_pc, d_distances, d_file, d_loaded>>
g_vars == <<g_pc, g_grid, g_once, g_twice, g_tasks>>
o_vars == <<o_pc, o_distances, o_path, o_best, o_before, o_improved,
            o_iterations>>

vars == <<a_pc, a_grid, a_start, a_end, a_result,
          s_pc, s_points, s_distances, s_start, s_path, s_result,
          t_pc, t_points, t_distances, t_tried, t_best, t_completed,
          t_attempts, t_result,
          m_pc, m_grid, m_tasks, m_pending, m_dropped, m_order, m_distances,
          m_file, m_result,
          j_consuming, j_files, j_delivered, j_last,
          d_pc, d_distances, d_file, d_loaded,
          g_pc, g_grid, g_once, g_twice, g_tasks,
          o_pc, o_distances, o_path, o_best, o_before, o_improved,
          o_iterations>>

----------------------------------------------------------------------------
(* Bounds of the model *)

\* rows of the grids the search is run on
GridRows == 3
\* columns of the grids the search is run on
GridCols == 3
\* most OBSTACLE cells in a grid the search is run on
MaxObstacles == 3
\* most points the solver functions are applied to directly
MaxPoints == 4
\* the records of the lookups carry the distances 1 .. MaxDistance
MaxDistance == 3
\* most START cells, and most END cells, in an aisle
MaxEndpoints == 2
\* most SHELF cells between the START cells and the END cells of an aisle
MaxGap == 2
\* cells of the aisles that process_map is run on
MapCols == 3
\* most START, END and SHELF cells in an aisle that process_map is run on
MaxLandmarks == 3
\* cells of the aisles of the map jobs
JobCols == 3
\* most job messages delivered to the consumer
MaxJobs == 2
\* most records in a list given to save_distances
MaxRecords == 2
\* rows of the grids that normalize_grid is applied to
NormRows == 2
\* columns of the grids that normalize_grid is applied to
NormCols == 2
\* most cells that arrive with an id in such a grid
MaxGivenIds == 2
\* the records of the lookups of the improvement loops carry the distances
\* 1 .. OptMaxDistance
OptMaxDistance == 2
\* points of the paths that improve_with_2opt is run on under every lookup
TwoOptPoints == 4

----------------------------------------------------------------------------
(* models.py *)

OBSTACLE == "OBSTACLE"
PATH == "PATH"
START == "START"
END == "END"
SHELF == "SHELF"

EType == {OBSTACLE, PATH, START, END, SHELF}

\* Optional values
None == <<>>
Some(v) == <<v>>
Val(o) == o[1]

\* a cell id (Union[str, None, int]): None, a string or an integer
NoId == [tag |-> "none", s |-> "", n |-> 0]
StrId(s) == [tag |-> "str", s |-> s, n |-> 0]
IntId(n) == [tag |-> "int", s |-> "", n |-> n]

Cell(t, i) == [type |-> t, id |-> i]

----------------------------------------------------------------------------
(* astar.py *)

Abs(x) == IF x < 0 THEN -x ELSE x

heuristic(a, b) == Abs(a[1] - b[1]) + Abs(a[2] - b[2])

\* the four moves, in the order of the source's loop
Directions == << <<-1, 0>>, <<1, 0>>, <<0, -1>>, <<0, 1>> >>

NumRows(grid) == Cardinality(DOMAIN grid)
NumCols(grid) == IF NumRows(grid) > 0 THEN Cardinality(DOMAIN grid[0]) ELSE 0

InBounds(p, rows, cols) == 0 <= p[1] /\ p[1] < rows /\ 0 <= p[2] /\ p[2] < cols

\* get_neighbors: the in-bounds neighbours, as a sequence in move order
RECURSIVE NeighborsFrom(_, _, _, _)
NeighborsFrom(pos, rows, cols, k) ==
    IF k > Len(Directions) THEN <<>>
    ELSE LET np == <<pos[1] + Directions[k][1], pos[2] + Directions[k][2]>>
             rest == NeighborsFrom(pos, rows, cols, k + 1)
         IN IF InBounds(np, rows, cols) THEN <<np>> \o rest ELSE rest

get_neighbors(pos, rows, cols) == NeighborsFrom(pos, rows, cols, 1)

\* heap entries are <<f, g, <<row, col>>>>; Python compares them
\* lexicographically, position included
EntryLess(x, y) ==
    \/ x[1] < y[1]
    \/ x[1] = y[1] /\ x[2] < y[2]
    \/ x[1] = y[1] /\ x[2] = y[2] /\ x[3][1] < y[3][1]
    \/ x[1] = y[1] /\ x[2] = y[2] /\ x[3][1] = y[3][1] /\ x[3][2] < y[3][2]

\* the variant of HeapTop with the comparison reversed (a max-heap)
HeapTopGreatest(open) ==
    CHOOSE x \in open : \A y \in open : y = x \/ EntryLess(y, x)

\* heapq.heappop: the least entry
HeapTop(open) == CHOOSE x \in open : \A y \in open : y = x \/ EntryLess(x, y)

\* the for loop over the neighbours of current (lines 52-69); st is
\* [open, g] with g the g_score dict as a function on its keys
RECURSIVE Expand(_, _, _, _, _, _)
Expand(grid, end_pos, closed, current, nbrs, st) ==
    IF nbrs = <<>> THEN st
    ELSE LET neighbor == Head(nbrs)
             tentative == st.g[current] + 1
             skip == \/ grid[neighbor[1]][neighbor[2]].type = OBSTACLE
                     \/ neighbor \in closed
             better == \/ neighbor \notin DOMAIN st.g
                       \/ tentative < st.g[neighbor]
             st2 == IF ~skip /\ better
                    THEN [open |-> st.open \cup
                              {<<tentative + heuristic(neighbor, end_pos),
                                 tentative, neighbor>>},
                          g |-> [p \in DOMAIN st.g \cup {neighbor} |->
                                    IF p = neighbor THEN tentative ELSE st.g[p]]]
                    ELSE st
         IN Expand(grid, end_pos, closed, current, Tail(nbrs), st2)

\* the while loop (lines 41-69)
RECURSIVE AstarLoop(_, _, _, _, _)
AstarLoop(grid, end_pos, open, g, closed) ==
    IF open = {} THEN None
    ELSE LET top == HeapTop(open)
             current == top[3]
             rest == open \ {top}
         IN IF current \in closed THEN AstarLoop(grid, end_pos, rest, g, closed)
            ELSE IF current = end_pos THEN Some(g[current])
            ELSE LET st == Expand(grid, end_pos, closed \cup {current}, current,
                                  get_neighbors(current, NumRows(grid), NumCols(grid)),
                                  [open |-> rest, g |-> g])
                 IN AstarLoop(grid, end_pos, st.open, st.g, closed \cup {current})

astar_pathfinding(grid, start_pos, end_pos) ==
    AstarLoop(grid, end_pos, {<<0, 0, start_pos>>},
              [p \in {start_pos} |-> 0], {})

----------------------------------------------------------------------------
(* tsp_solver.py                                                            *)
(* A distances dict is a function whose domain is the set of its keys,      *)
(* ordered pairs <<from_id, to_id>>.  A path is a sequence of point ids.    *)
(* An Optional[List] is None (<<>>) or Some(path) (<<path>>).               *)

\* program constants
TwoOptMaxIterations == 1000
ThreeOptMaxIterations == 100
BruteforceMaxPoints == 7
NearestNeighborMaxPoints == 10
ThreeOptMaxPoints == 50
MaxStarts == 5

Min(a, b) == IF a < b THEN a ELSE b

\* the variant of get_distance with the reverse lookup left out
get_distance_forward_only(distances, from_point, to_point) ==
    IF <<from_point, to_point>> \in DOMAIN distances
    THEN Some(distances[<<from_point, to_point>>])
    ELSE None

get_distance(distances, from_point, to_point) ==
    IF <<from_point, to_point>> \in DOMAIN distances
    THEN Some(distances[<<from_point, to_point>>])
    ELSE IF <<to_point, from_point>> \in DOMAIN distances
         THEN Some(distances[<<to_point, from_point>>])
         ELSE None

\* the sum of the edges path[i], path[i+1] from i on; None at an unknown edge
RECURSIVE PathDistanceFrom(_, _, _)
PathDistanceFrom(distances, path, i) ==
    IF i >= Len(path) THEN Some(0)
    ELSE LET dist == get_distance(distances, path[i], path[i + 1])
             rest == PathDistanceFrom(distances, path, i + 1)
         IN IF dist = None \/ rest = None THEN None
            ELSE Some(Val(dist) + Val(rest))

calculate_path_distance(distances, path) ==
    IF Len(path) < 2 THEN Some(0) ELSE PathDistanceFrom(distances, path, 1)

RemoveAt(seq, i) == SubSeq(seq, 1, i - 1) \o SubSeq(seq, i + 1, Len(seq))

\* itertools.permutations(points): the permutations in the order Python
\* yields them (lexicographic in the positions of the input)
RECURSIVE itertools_permutations(_)
RECURSIVE PermutationsFrom(_, _)
PermutationsFrom(points, i) ==
    IF i > Len(points) THEN <<>>
    ELSE LET tails == itertools_permutations(RemoveAt(points, i))
         IN [k \in 1 .. Len(tails) |-> <<points[i]>> \o tails[k]]
            \o PermutationsFrom(points, i + 1)

itertools_permutations(points) ==
    IF points = <<>> THEN << <<>> >> ELSE PermutationsFrom(points, 1)

\* lines 79-90: the forward key, else the reverse key, else invalid
BruteforceEdge(distances, a, b) ==
    IF <<a, b>> \in DOMAIN distances THEN Some(distances[<<a, b>>])
    ELSE IF <<b, a>> \in DOMAIN distances THEN Some(distances[<<b, a>>])
         ELSE None

RECURSIVE BruteforceTotalFrom(_, _, _)
BruteforceTotalFrom(distances, path_list, i) ==
    IF i >= Len(path_list) THEN Some(0)
    ELSE LET e == BruteforceEdge(distances, path_list[i], path_list[i + 1])
             rest == BruteforceTotalFrom(distances, path_list, i + 1)
         IN IF e = None \/ rest = None THEN None ELSE Some(Val(e) + Val(rest))

\* BruteforceStep keeping the later of two permutations of equal or greater
\* total (the variant with the comparison reversed)
BruteforceStepReversed(distances, perm, best) ==
    LET total == BruteforceTotalFrom(distances, perm, 1)
    IN IF total # None /\ (best.path = None \/ Val(total) > best.dist)
       THEN [path |-> Some(perm), dist |-> Val(total)]
       ELSE best

\* lines 92-94; best.path = None stands for best_distance = inf
BruteforceStep(distances, perm, best) ==
    LET total == BruteforceTotalFrom(distances, perm, 1)
    IN IF total # None /\ (best.path = None \/ Val(total) < best.dist)
       THEN [path |-> Some(perm), dist |-> Val(total)]
       ELSE best

RECURSIVE BruteforceScan(_, _, _, _)
BruteforceScan(distances, perms, k, best) ==
    IF k > Len(perms) THEN best
    ELSE BruteforceScan(distances, perms, k + 1,
                        BruteforceStep(distances, perms[k], best))

solve_tsp_bruteforce(distances, points) ==
    BruteforceScan(distances, itertools_permutations(points), 1,
                   [path |-> None, dist |-> 0]).path

SeqToSet(seq) == {seq[i] : i \in 1 .. Len(seq)}

\* the variant of lines 129-134 that takes any unvisited point with a known
\* distance
NearestCandidatesAnyKnown(distances, current, unvisited) ==
    {p \in unvisited : get_distance(distances, current, p) # None}

\* The points the loop of lines 129-134 can leave in nearest: unvisited is a
\* Python set, whose iteration order is not fixed, and the comparison is
\* strict, so any point of least known distance to current can win.
NearestCandidates(distances, current, unvisited) ==
    {p \in unvisited :
        /\ get_distance(distances, current, p) # None
        /\ \A q \in unvisited :
              get_distance(distances, current, q) # None =>
                  Val(get_distance(distances, current, p))
                      <= Val(get_distance(distances, current, q))}

\* the while loop of lines 124-143: the set of values it may return
RECURSIVE NearestNeighborFrom(_, _, _)
NearestNeighborFrom(distances, path, unvisited) ==
    IF unvisited = {} THEN {Some(path)}
    ELSE LET cands == NearestCandidates(distances, path[Len(path)], unvisited)
         IN IF cands = {} THEN {None}
            ELSE UNION {NearestNeighborFrom(distances, Append(path, p),
                                            unvisited \ {p}) : p \in cands}

\* solve_tsp_nearest_neighbor: the set of values the call may return
solve_tsp_nearest_neighbor(distances, points, start_point) ==
    IF points = <<>> THEN {Some(<<>>)}
    ELSE LET start == IF start_point \in SeqToSet(points)
                      THEN start_point ELSE points[1]
         IN NearestNeighborFrom(distances, <<start>>, SeqToSet(points) \ {start})

Reverse(seq) == [k \in 1 .. Len(seq) |-> seq[Len(seq) + 1 - k]]

\* Python's zero-based best_path[i]
At(path, i) == path[i + 1]
\* Python's slice path[lo:hi]
Slice(path, lo, hi) == SubSeq(path, lo + 1, hi)

\* the variant of TwoOptImproves with the comparison of line 287 reversed
TwoOptImprovesReversed(distances, best_path, i, j) ==
    LET n == Len(best_path)
        d1 == get_distance(distances, At(best_path, i), At(best_path, i + 1))
        d2 == IF j + 1 < n
              THEN get_distance(distances, At(best_path, j), At(best_path, j + 1))
              ELSE Some(0)
        d3 == get_distance(distances, At(best_path, i), At(best_path, j))
        d4 == IF j + 1 < n
              THEN get_distance(distances, At(best_path, i + 1), At(best_path, j + 1))
              ELSE Some(0)
    IN /\ d1 # None /\ d2 # None /\ d3 # None /\ d4 # None
       /\ Val(d3) + Val(d4) > Val(d1) + Val(d2)

\* lines 260-287 for one pair i, j (zero-based): whether the swap is applied
TwoOptImproves(distances, best_path, i, j) ==
    LET n == Len(best_path)
        d1 == get_distance(distances, At(best_path, i), At(best_path, i + 1))
        d2 == IF j + 1 < n
              THEN get_distance(distances, At(best_path, j), At(best_path, j + 1))
              ELSE Some(0)
        d3 == get_distance(distances, At(best_path, i), At(best_path, j))
        d4 == IF j + 1 < n
              THEN get_distance(distances, At(best_path, i + 1), At(best_path, j + 1))
              ELSE Some(0)
    IN /\ d1 # None /\ d2 # None /\ d3 # None /\ d4 # None
       /\ Val(d3) + Val(d4) < Val(d1) + Val(d2)

\* line 289: best_path[i + 1:j + 1] reversed in place
TwoOptSwap(best_path, i, j) ==
    Slice(best_path, 0, i + 1)
        \o Reverse(Slice(best_path, i + 1, j + 1))
        \o Slice(best_path, j + 1, Len(best_path))

TwoOptPairs(n) == {ij \in (0 .. n - 2) \X (0 .. n - 1) : ij[2] >= ij[1] + 2}

PairLess(x, y) == x[1] < y[1] \/ (x[1] = y[1] /\ x[2] < y[2])

\* one pass of the for loops (lines 254-294): the pair the pass stops at
TwoOptFirst(distances, best_path) ==
    LET hits == {ij \in TwoOptPairs(Len(best_path)) :
                    TwoOptImproves(distances, best_path, ij[1], ij[2])}
    IN IF hits = {} THEN None
       ELSE Some(CHOOSE x \in hits : \A y \in hits : y = x \/ PairLess(x, y))

\* the while loop of lines 250-294
RECURSIVE TwoOptLoop(_, _, _, _)
TwoOptLoop(distances, best_path, iterations, max_iterations) ==
    IF iterations >= max_iterations THEN best_path
    ELSE LET hit == TwoOptFirst(distances, best_path)
         IN IF hit = None THEN best_path
            ELSE TwoOptLoop(distances,
                            TwoOptSwap(best_path, Val(hit)[1], Val(hit)[2]),
                            iterations + 1, max_iterations)

improve_with_2opt(distances, path) ==
    TwoOptLoop(distances, path, 0, TwoOptMaxIterations)

\* Python truthiness of an Optional[int]: None and 0 are falsy
Falsy(o) == o = None \/ Val(o) = 0

\* Lines 336-340.  Python reads
\*     a or 0 + b or 0 + c or 0    as    a or (0 + b) or (0 + c) or 0,
\* so b is looked at only when a is None or 0, and 0 + None raises TypeError.
ThreeOptCurrent(distances, best_path, i, j, k) ==
    LET n == Len(best_path)
        a == get_distance(distances, At(best_path, i), At(best_path, i + 1))
        b == get_distance(distances, At(best_path, j), At(best_path, j + 1))
        c == get_distance(distances, At(best_path, k), At(best_path, (k + 1) % n))
    IN IF ~Falsy(a) THEN [raised |-> FALSE, value |-> Val(a)]
       ELSE IF b = None THEN [raised |-> TRUE, value |-> 0]
       ELSE IF Val(b) # 0 THEN [raised |-> FALSE, value |-> Val(b)]
       ELSE IF c = None THEN [raised |-> TRUE, value |-> 0]
       ELSE [raised |-> FALSE, value |-> Val(c)]

\* lines 343-348
ThreeOptNewPath(best_path, i, j, k) ==
    Slice(best_path, 0, i + 1)
        \o Reverse(Slice(best_path, j + 1, k + 1))
        \o Slice(best_path, i + 1, j + 1)
        \o Slice(best_path, k + 1, Len(best_path))

\* Lines 350-354: a or (inf + b) or (inf + c) or inf.  inf + b is inf, which
\* is truthy, so c is never looked at; inf + None raises TypeError.
ThreeOptNew(distances, new_path, i, j, k) ==
    LET a == get_distance(distances, At(new_path, i), At(new_path, i + 1))
        b == get_distance(distances, At(new_path, j), At(new_path, j + 1))
    IN IF ~Falsy(a) THEN [raised |-> FALSE, inf |-> FALSE, value |-> Val(a)]
       ELSE IF b = None THEN [raised |-> TRUE, inf |-> FALSE, value |-> 0]
       ELSE [raised |-> FALSE, inf |-> TRUE, value |-> 0]

\* the body of the innermost loop for one i, j, k: "raise", "apply" or "skip"
ThreeOptTry(distances, best_path, i, j, k) ==
    LET d_current == ThreeOptCurrent(distances, best_path, i, j, k)
        d_new == ThreeOptNew(distances, ThreeOptNewPath(best_path, i, j, k), i, j, k)
    IN IF d_current.raised THEN "raise"
       ELSE IF d_new.raised THEN "raise"
       ELSE IF ~d_new.inf /\ d_new.value < d_current.value THEN "apply"
       ELSE "skip"

\* range(n - 2) x range(i + 2, n - 1) x range(j + 2, n)
ThreeOptTriples(n) ==
    {t \in (0 .. n - 3) \X (0 .. n - 2) \X (0 .. n - 1) :
        t[2] >= t[1] + 2 /\ t[3] >= t[2] + 2}

TripleLess(x, y) ==
    \/ x[1] < y[1]
    \/ x[1] = y[1] /\ x[2] < y[2]
    \/ x[1] = y[1] /\ x[2] = y[2] /\ x[3] < y[3]

\* one pass of the for loops (lines 329-365): the first i, j, k at which the
\* body does not skip
ThreeOptFirst(distances, best_path) ==
    LET hits == {t \in ThreeOptTriples(Len(best_path)) :
                    ThreeOptTry(distances, best_path, t[1], t[2], t[3]) # "skip"}
    IN IF hits = {} THEN None
       ELSE Some(CHOOSE x \in hits : \A y \in hits : y = x \/ TripleLess(x, y))

\* the while loop of lines 325-365; [raised, path]
RECURSIVE ThreeOptLoop(_, _, _, _)
ThreeOptLoop(distances, best_path, iterations, max_iterations) ==
    IF iterations >= max_iterations THEN [raised |-> FALSE, path |-> best_path]
    ELSE LET hit == ThreeOptFirst(distances, best_path)
         IN IF hit = None THEN [raised |-> FALSE, path |-> best_path]
            ELSE LET t == Val(hit)
                 IN IF ThreeOptTry(distances, best_path, t[1], t[2], t[3]) = "raise"
                    THEN [raised |-> TRUE, path |-> best_path]
                    ELSE ThreeOptLoop(distances,
                                      ThreeOptNewPath(best_path, t[1], t[2], t[3]),
                                      iterations + 1, max_iterations)

\* improve_with_3opt: [raised, path]; raised stands for an uncaught TypeError
improve_with_3opt(distances, path) ==
    ThreeOptLoop(distances, path, 0, ThreeOptMaxIterations)

\* lines 162-163: how many start indices solve_tsp_heuristic tries; None
\* without points, when random.sample is asked for -1 indices and raises
\* ValueError
NumStartIndices(points) ==
    IF Len(points) = 0 THEN None
    ELSE Some(1 + Min(Min(Len(points), MaxStarts) - 1, Len(points) - 1))

\* the body of the loop, were line 175 to compare with nothing: the path
\* of the last construction that succeeded is kept
HeuristicStepKeepsLast(distances, nn, best) ==
    IF nn = None THEN best
    ELSE LET path == improve_with_2opt(distances, Val(nn))
             path_distance == calculate_path_distance(distances, path)
         IN IF path_distance # None
            THEN [path |-> Some(path), dist |-> Val(path_distance)]
            ELSE best

\* Lines 166-177, the body of the loop for one start index and one value nn
\* that solve_tsp_nearest_neighbor may return; best is [path, dist] with
\* path = None standing for best_distance = inf.
HeuristicStep(distances, nn, best) ==
    IF nn = None THEN best
    ELSE LET path == improve_with_2opt(distances, Val(nn))
             path_distance == calculate_path_distance(distances, path)
         IN IF path_distance # None
               /\ (best.path = None \/ Val(path_distance) < best.dist)
            THEN [path |-> Some(path), dist |-> Val(path_distance)]
            ELSE best

\* Lines 179-187: what solve_tsp_heuristic returns once the loop is over, as
\* [kind, path] with kind "tour", "none" or "raise"
HeuristicReturn(distances, points, best) ==
    IF best.path = None THEN [kind |-> "none", path |-> <<>>]
    ELSE IF Len(points) <= ThreeOptMaxPoints
         THEN LET r == improve_with_3opt(distances, Val(best.path))
              IN IF r.raised THEN [kind |-> "raise", path |-> <<>>]
                 ELSE [kind |-> "tour", path |-> r.path]
         ELSE [kind |-> "tour", path |-> Val(best.path)]

\* an Optional[List] as [kind, path]
Returned(o) ==
    IF o = None THEN [kind |-> "none", path |-> <<>>]
    ELSE [kind |-> "tour", path |-> Val(o)]

\* the start indices that the loop of lines 165-177 may use next, when it
\* has used those of tried: index 0 first, then an index not used so far
NextStartIndices(points, tried) ==
    IF tried = {} THEN {0} ELSE (1 .. Len(points) - 1) \ tried

\* solve_tsp_heuristic: every result that some draw of random.sample and
\* some resolution of the ties of the constructions gives
RECURSIVE HeuristicRuns(_, _, _, _)
HeuristicRuns(distances, points, tried, best) ==
    IF Cardinality(tried) >= Val(NumStartIndices(points))
    THEN {HeuristicReturn(distances, points, best)}
    ELSE UNION {UNION {HeuristicRuns(distances, points, tried \cup {start_idx},
                                     HeuristicStep(distances, nn, best)) :
                         nn \in solve_tsp_nearest_neighbor(
                                    distances, points, At(points, start_idx))} :
                  start_idx \in NextStartIndices(points, tried)}

solve_tsp_heuristic(distances, points) ==
    IF NumStartIndices(points) = None
    THEN {[kind |-> "raise", path |-> <<>>]}
    ELSE HeuristicRuns(distances, points, {}, [path |-> None, dist |-> 0])

\* solve_tsp: the results it can give, each [kind, path] with kind "tour",
\* "none" (it returns None) or "raise"
solve_tsp(distances, points) ==
    IF Len(points) = 0 THEN {[kind |-> "tour", path |-> <<>>]}
    ELSE IF Len(points) = 1 THEN {[kind |-> "tour", path |-> points]}
    ELSE IF Len(points) <= BruteforceMaxPoints
         THEN {Returned(solve_tsp_bruteforce(distances, points))}
    ELSE IF Len(points) <= NearestNeighborMaxPoints
         THEN {IF initial_path = None THEN [kind |-> "none", path |-> <<>>]
               ELSE [kind |-> "tour",
                     path |-> improve_with_2opt(distances, Val(initial_path))] :
                 initial_path \in
                     solve_tsp_nearest_neighbor(distances, points, points[1])}
    ELSE solve_tsp_heuristic(distances, points)

----------------------------------------------------------------------------
(* map_processor.py *)

\* str() of a cell id (Union[str, None, int])
str(id) ==
    IF id.tag = "int" THEN ToString(id.n)
    ELSE IF id.tag = "none" THEN "None"
    ELSE id.s

\* str.lower() of the value of an EType member
lower(t) ==
    CASE t = OBSTACLE -> "obstacle"
      [] t = PATH -> "path"
      [] t = START -> "start"
      [] t = END -> "end"
      [] t = SHELF -> "shelf"

\* the variant of line 23 with the column before the row
GeneratedIdColumnFirst(t, row_idx, col_idx) ==
    StrId(lower(t) \o "_" \o ToString(col_idx) \o "_" \o ToString(row_idx))

\* line 23: f"{cell.type.value.lower()}_{row_idx}_{col_idx}"
GeneratedId(t, row_idx, col_idx) ==
    StrId(lower(t) \o "_" \o ToString(row_idx) \o "_" \o ToString(col_idx))

\* the variant of normalize_grid that generates the id of every cell
normalize_grid_every_cell(grid) ==
    [row_idx \in DOMAIN grid |->
        [col_idx \in DOMAIN grid[row_idx] |->
            Cell(grid[row_idx][col_idx].type,
                 GeneratedId(grid[row_idx][col_idx].type, row_idx, col_idx))]]

normalize_grid(grid) ==
    [row_idx \in DOMAIN grid |->
        [col_idx \in DOMAIN grid[row_idx] |->
            LET cell == grid[row_idx][col_idx]
            IN IF cell.id = NoId
               THEN Cell(cell.type, GeneratedId(cell.type, row_idx, col_idx))
               ELSE cell]]

\* find_cells_by_type: the (id, position) of the cells of a type, in
\* row-major order
RECURSIVE CellsFrom(_, _, _, _)
CellsFrom(grid, cell_type, row_idx, col_idx) ==
    IF row_idx >= NumRows(grid) THEN <<>>
    ELSE IF col_idx >= Cardinality(DOMAIN grid[row_idx])
         THEN CellsFrom(grid, cell_type, row_idx + 1, 0)
         ELSE LET cell == grid[row_idx][col_idx]
                  rest == CellsFrom(grid, cell_type, row_idx, col_idx + 1)
              IN IF cell.type = cell_type
                 THEN << <<cell.id, <<row_idx, col_idx>> >> >> \o rest
                 ELSE rest

find_cells_by_type(grid, cell_type) == CellsFrom(grid, cell_type, 0, 0)

\* an element of tasks: (from_id, from_pos, to_id, to_pos)
Task(from, to) ==
    [from_id |-> from[1], from_pos |-> from[2],
     to_id |-> to[1], to_pos |-> to[2]]

RECURSIVE Concat(_)
Concat(seqs) == IF seqs = <<>> THEN <<>> ELSE Head(seqs) \o Concat(Tail(seqs))

\* the variant of lines 71-73 that pairs each shelf with every other shelf
ShelfTasksBothDirections(shelves) ==
    Concat([i \in 1 .. Len(shelves) |->
               [j \in 1 .. Len(shelves) - 1 |->
                   Task(shelves[i], shelves[IF j < i THEN j ELSE j + 1])]])

\* lines 71-73: each shelf with the shelves after it in the list
ShelfTasks(shelves) ==
    Concat([i \in 1 .. Len(shelves) |->
               [j \in 1 .. Len(shelves) - i |-> Task(shelves[i], shelves[i + j])]])

\* lines 76-78 and 81-83: every element of froms with every element of tos
CrossTasks(froms, tos) ==
    Concat([i \in 1 .. Len(froms) |->
               [j \in 1 .. Len(tos) |-> Task(froms[i], tos[j])]])

\* the variant of lines 63-83 that also pairs every START with every END
TasksWithStartEnd(grid) ==
    LET shelves == find_cells_by_type(grid, SHELF)
        starts == find_cells_by_type(grid, START)
        ends == find_cells_by_type(grid, END)
    IN ShelfTasks(shelves) \o CrossTasks(starts, shelves)
          \o CrossTasks(shelves, ends) \o CrossTasks(starts, ends)

\* lines 63-83, on the normalized grid
Tasks(grid) ==
    LET shelves == find_cells_by_type(grid, SHELF)
        starts == find_cells_by_type(grid, START)
        ends == find_cells_by_type(grid, END)
    IN ShelfTasks(shelves) \o CrossTasks(starts, shelves)
          \o CrossTasks(shelves, ends)

Distance(from_id, to_id, distance) ==
    [from_id |-> from_id, to_id |-> to_id, distance |-> distance]

\* the variant of calculate_distance that records a pair without a path as
\* distance 0
calculate_distance_zero(grid, from_id, from_pos, to_id, to_pos) ==
    LET distance == astar_pathfinding(grid, from_pos, to_pos)
    IN Distance(str(from_id), str(to_id),
                IF distance = None THEN 0 ELSE Val(distance))

calculate_distance(grid, from_id, from_pos, to_id, to_pos) ==
    LET distance == astar_pathfinding(grid, from_pos, to_pos)
    IN Distance(str(from_id), str(to_id),
                IF distance = None THEN -1 ELSE Val(distance))

\* what future.result() gives for a task: the Distance that the worker
\* returned, or the exception that it raised
FutureResult(grid, task, raises) ==
    IF raises THEN [raised |-> TRUE, value |-> <<>>]
    ELSE [raised |-> FALSE,
          value |-> calculate_distance(grid, task.from_id, task.from_pos,
                                       task.to_id, task.to_pos)]

\* the variant of the loop body that discards what was collected when a
\* worker raises
CollectDiscarding(distances, result) ==
    IF result.raised THEN <<>> ELSE Append(distances, result.value)

\* lines 101-106: one turn of the loop over as_completed(futures)
Collect(distances, result) ==
    IF result.raised THEN distances ELSE Append(distances, result.value)

\* line 116: [d.model_dump() for d in distances]
model_dump(d) ==
    [from_id |-> d.from_id, to_id |-> d.to_id, distance |-> d.distance]

\* save_distances: the content of the file of the map
save_distances(distances) ==
    [k \in 1 .. Len(distances) |-> model_dump(distances[k])]

\* The file of a map is None (no file), Some(data) with the list of records
\* that json.dump wrote, or Truncated: lines 118-119 open the file with 'w',
\* which creates or empties it, and the write failed after that, so the
\* file is there and holds no JSON document.
Truncated == <<"truncated", "no JSON document">>

\* lines 118-119: the files that a call of save_distances that raises
\* OSError can leave: the one before the call when open raises, the
\* truncated one when the write raises
SaveFailures(file) == {file, Truncated}

\* lines 131-134: later items overwrite earlier items with the same key
RECURSIVE LoadFrom(_, _, _)
LoadFrom(data, k, distances) ==
    IF k > Len(data) THEN distances
    ELSE LET key == <<data[k].from_id, data[k].to_id>>
         IN LoadFrom(data, k + 1,
                     [ab \in DOMAIN distances \cup {key} |->
                         IF ab = key THEN data[k].distance ELSE distances[ab]])

\* load_distances on the content of an existing file
load_distances(data) == LoadFrom(data, 1, <<>>)

\* lines 125-129: the exception load_distances raises for a file, None
\* when it reads the records
LoadError(file) ==
    IF file = None THEN Some("FileNotFoundError")
    ELSE IF file = Truncated THEN Some("JSONDecodeError")
    ELSE None

----------------------------------------------------------------------------
(* rabbitmq_handler.py *)

\* A value of the JSON object of a job body: absent, null, a number, or
\* (Js) a string for jobid and mapid, an array for map and point_of_interest.
Missing == [t |-> "missing", v |-> <<>>]
Null == [t |-> "null", v |-> <<>>]
Num(n) == [t |-> "number", n |-> n]
Js(v) == [t |-> "value", v |-> <<v>>]
JsVal(j) == IF j.t = "number" THEN j.n ELSE j.v[1]

\* A job body: text that json.loads rejects, JSON that is no object, or a
\* JSON object with its jobid, its mapid and its map or point_of_interest.
Unparseable ==
    [json |-> "invalid", jobid |-> Missing, mapid |-> Missing, payload |-> Missing]
NotObject ==
    [json |-> "array", jobid |-> Missing, mapid |-> Missing, payload |-> Missing]
Object(jobid, mapid, payload) ==
    [json |-> "object", jobid |-> jobid, mapid |-> mapid, payload |-> payload]

\* a field declared Union[str, int] takes a string or a number
StrOrInt(j) == j.t \in {"value", "number"}

\* map_processor.py lines 115 and 123: f"{mapid}", the name of the file of
\* a map, the same for the number 1 and the string "1"
FileName(mapid) ==
    IF mapid.t = "number" THEN ToString(JsVal(mapid)) ELSE JsVal(mapid)

\* lines 101-102: the exception that json.loads or MapProcessRequest raises
\* for a body, None when the request is built
MapProcessRequestError(body) ==
    IF body.json = "invalid" THEN Some("JSONDecodeError")
    ELSE IF body.json = "array" THEN Some("TypeError")
    ELSE IF ~StrOrInt(body.jobid) \/ ~StrOrInt(body.mapid)
            \/ body.payload.t # "value"
         THEN Some("ValidationError")
         ELSE None

\* lines 140-141: the same for TSPRequest, whose jobid is declared str
TSPRequestError(body) ==
    IF body.json = "invalid" THEN Some("JSONDecodeError")
    ELSE IF body.json = "array" THEN Some("TypeError")
    ELSE IF body.jobid.t # "value" \/ ~StrOrInt(body.mapid)
            \/ body.payload.t # "value"
         THEN Some("ValidationError")
         ELSE None

\* what happens during one call of a handler, in order
Event(ev, queue, message) == [ev |-> ev, queue |-> queue, message |-> message]
Logged(text) == Event("print", "", text)
Acked == Event("basic_ack", "", <<>>)
Raised(exception) == Event("raise", "", exception)

map_response_queue == "map_processing_responses"
tsp_response_queue == "tsp_responses"

\* What one call of publish_message can do: it hands the message to the
\* broker and returns; it raises before the message is out (lines 70-81);
\* it hands the message to the broker and raises in connection.close()
\* (line 83).
PublishOutcomes == {"returns", "raises", "published_raises"}

\* publish_message, lines 70-83; the connection has no event of its own
publish_message(queue, message, outcome) ==
    (IF outcome = "raises" THEN <<>>
     ELSE <<Event("basic_publish", queue, message)>>)
        \o (IF outcome = "returns" THEN <<>>
            ELSE <<Event("publish_raises", queue, message)>>)

MapProcessResponse(jobid, status, errormessage) ==
    [jobid |-> jobid, status |-> status, errormessage |-> errormessage]

TSPResponse(point_of_interest, jobid, errormessage, status) ==
    [point_of_interest |-> point_of_interest, jobid |-> jobid,
     errormessage |-> errormessage, status |-> status]

\* lines 93-94 and 131-132: the two lines printed when the error response
\* could not be sent
SendFailureLogged(text, error_msg) ==
    <<Logged(<<text>>), Logged(<<"Original error was">> \o error_msg)>>

\* _send_map_error_response, lines 87-94
send_map_error_response(jobid, error_msg, outcome) ==
    publish_message(map_response_queue,
                    MapProcessResponse(jobid, "error", Some(error_msg)), outcome)
        \o (IF outcome = "returns" THEN <<>>
            ELSE SendFailureLogged("Failed to send map error response to queue",
                                   error_msg))

\* _send_tsp_error_response, lines 127-132; jobid is a JSON value, and
\* TSPResponse (line 128) raises ValidationError for a jobid that is no
\* string
send_tsp_error_response(jobid, error_msg, outcome) ==
    IF jobid.t # "value"
    THEN SendFailureLogged("Failed to send TSP error response to queue",
                           error_msg)
    ELSE publish_message(tsp_response_queue,
                         TSPResponse(None, JsVal(jobid), Some(error_msg),
                                     "error"),
                         outcome)
            \o (IF outcome = "returns" THEN <<>>
                ELSE SendFailureLogged(
                         "Failed to send TSP error response to queue", error_msg))

\* process_map: the lists that the loop of lines 100-106 can leave in
\* distances, over every completion order of the futures and every worker
\* that raises
RECURSIVE CollectAll(_, _, _, _)
CollectAll(grid, tasks, pending, distances) ==
    IF pending = {} THEN {distances}
    ELSE UNION {CollectAll(grid, tasks, pending \ {x[1]},
                           Collect(distances,
                                   FutureResult(grid, tasks[x[1]], x[2]))) :
                  x \in pending \X BOOLEAN}

process_map(grid) ==
    LET normalized == normalize_grid(grid)
        tasks == Tasks(normalized)
    IN CollectAll(normalized, tasks, 1 .. Len(tasks), <<>>)

\* the result of one call of a handler: the files after it, what happened
\* during it, and whether an exception left the handler
Handled(files, trace, raised) ==
    [files |-> files, trace |-> trace, raised |-> raised]

\* lines 115-123 when json.loads or MapProcessRequest raised: jobid was
\* never bound, line 119 raises UnboundLocalError, the finally block acks
\* and the error leaves the handler
MapParseFailure(files, error) ==
    Handled(files,
            <<Logged(<<"Error in map processing">> \o error), Acked,
              Raised(<<"UnboundLocalError">>)>>,
            TRUE)

\* lines 115-123 when a statement after line 103 raised
MapFailure(files, jobid, error, outcome) ==
    Handled(files,
            <<Logged(<<"Error in map processing">> \o error)>>
               \o send_map_error_response(jobid,
                      <<"Error processing map">> \o error, outcome)
               \o <<Acked>>,
            FALSE)

\* handle_map_processing: the results of one call, over what process_map
\* and the two calls of publish_message can do
handle_map_processing(files, body) ==
    IF MapProcessRequestError(body) # None
    THEN {MapParseFailure(files, <<Val(MapProcessRequestError(body))>>)}
    ELSE LET jobid == JsVal(body.jobid)
             mapid == FileName(body.mapid)
             saved == {[files EXCEPT ![mapid] = Some(save_distances(distances))] :
                          distances \in process_map(JsVal(body.payload))}
             complete == MapProcessResponse(jobid, "complete", None)
         IN {MapFailure([files EXCEPT ![mapid] = file], jobid, <<"OSError">>,
                        outcome) :
                file \in SaveFailures(files[mapid]),
                outcome \in PublishOutcomes}
            \cup {Handled(f,
                          publish_message(map_response_queue, complete, first)
                             \o MapFailure(f, jobid, <<"AMQPConnectionError">>,
                                           outcome).trace,
                          FALSE) :
                     f \in saved, first \in PublishOutcomes \ {"returns"},
                     outcome \in PublishOutcomes}
            \cup {Handled(f,
                          publish_message(map_response_queue, complete, "returns")
                             \o <<Logged(<<"Map processing completed">>), Acked>>,
                          FALSE) : f \in saved}

\* lines 164-168: the jobid of the error response when the request could
\* not be built
RawJobid(body) ==
    IF body.json # "object" THEN Js("unknown")
    ELSE IF body.jobid.t = "missing" THEN Js("unknown")
    ELSE body.jobid

\* lines 162-174
TspFailure(files, jobid, error, outcome) ==
    Handled(files,
            <<Logged(<<"Error in TSP processing">> \o error)>>
               \o send_tsp_error_response(jobid,
                      <<"Error processing TSP">> \o error, outcome)
               \o <<Acked>>,
            FALSE)

FileNotFoundError(mapid) == <<"Map data not found for mapid", mapid>>

\* line 148
Points(point_of_interest) ==
    [k \in 1 .. Len(point_of_interest) |-> str(point_of_interest[k])]

\* lines 151-160 for one result of solve_tsp; first is what the call of
\* publish_message in the try block does, outcome what the one in the
\* except block does
TspOutcome(files, jobid, result, first, outcome) ==
    IF result.kind = "raise"
    THEN TspFailure(files, Js(jobid), <<"TypeError">>, outcome)
    ELSE IF result.kind = "none"
    THEN Handled(files,
                 send_tsp_error_response(Js(jobid),
                     <<"No valid path found for the given points">>, first)
                    \o <<Acked>>,
                 FALSE)
    ELSE IF first # "returns"
    THEN Handled(files,
                 publish_message(tsp_response_queue,
                     TSPResponse(Some(result.path), jobid, None, "complete"),
                     first)
                    \o TspFailure(files, Js(jobid), <<"AMQPConnectionError">>,
                                  outcome).trace,
                 FALSE)
    ELSE Handled(files,
                 publish_message(tsp_response_queue,
                     TSPResponse(Some(result.path), jobid, None, "complete"),
                     first)
                    \o <<Logged(<<"TSP processing completed">>), Acked>>,
                 FALSE)

\* handle_tsp: the results of one call, over what solve_tsp and the calls
\* of publish_message can do
handle_tsp(files, body) ==
    IF TSPRequestError(body) # None
    THEN {TspFailure(files, RawJobid(body), <<Val(TSPRequestError(body))>>,
                     outcome) : outcome \in PublishOutcomes}
    ELSE LET jobid == JsVal(body.jobid)
             mapid == FileName(body.mapid)
         IN IF LoadError(files[mapid]) = Some("FileNotFoundError")
            THEN {TspFailure(files, Js(jobid), FileNotFoundError(mapid),
                             outcome) : outcome \in PublishOutcomes}
            ELSE IF LoadError(files[mapid]) # None
            THEN {TspFailure(files, Js(jobid),
                             <<Val(LoadError(files[mapid]))>>, outcome) :
                     outcome \in PublishOutcomes}
            ELSE {TspOutcome(files, jobid, x[1], x[2], x[3]) :
                     x \in solve_tsp(load_distances(Val(files[mapid])),
                                     Points(JsVal(body.payload)))
                              \X PublishOutcomes \X PublishOutcomes}

\* the record of a delivered job
Job(handler, body, trace, raised) ==
    [handler |-> handler, body |-> body, trace |-> trace, raised |-> raised]

NoJob == Job("none", Unparseable, <<>>, FALSE)


----------------------------------------------------------------------------
(* Specification SpecAstar: astar_pathfinding on every grid of              *)
(* GridRows x GridCols cells that are OBSTACLE or PATH, with at most        *)
(* MaxObstacles obstacles, from every start to every goal.                  *)

Positions(rows, cols) == (0 .. rows - 1) \X (0 .. cols - 1)

ObstacleCount(grid) ==
    Cardinality({p \in Positions(NumRows(grid), NumCols(grid)) :
                    grid[p[1]][p[2]].type = OBSTACLE})

SearchGrids ==
    {g \in [0 .. GridRows - 1 ->
               [0 .. GridCols - 1 -> {Cell(OBSTACLE, NoId), Cell(PATH, NoId)}]] :
        ObstacleCount(g) <= MaxObstacles}

\* the variables of the other specifications, at rest
AstarIdle ==
    /\ a_pc = "idle" /\ a_grid = <<>> /\ a_start = <<>> /\ a_end = <<>>
    /\ a_result = None
SolverIdle ==
    /\ s_pc = "idle" /\ s_points = <<>> /\ s_distances = <<>> /\ s_start = 0
    /\ s_path = None /\ s_result = None

TspIdle ==
    /\ t_pc = "idle" /\ t_points = <<>> /\ t_distances = <<>> /\ t_tried = {}
    /\ t_best = [path |-> None, dist |-> 0] /\ t_completed = FALSE
    /\ t_attempts = [turns |-> 0, failed |-> FALSE, lowest |-> None]
    /\ t_result = [kind |-> "pending", path |-> <<>>]

MapIdle ==
    /\ m_pc = "idle" /\ m_grid = <<>> /\ m_tasks = <<>> /\ m_pending = {}
    /\ m_dropped = {} /\ m_order = <<>> /\ m_distances = <<>>
    /\ m_file = None /\ m_result = None

JobsIdle ==
    /\ j_consuming = FALSE /\ j_files = <<>> /\ j_delivered = 0
    /\ j_last = NoJob

StoreIdle ==
    /\ d_pc = "idle" /\ d_distances = <<>> /\ d_file = None /\ d_loaded = <<>>

GridIdle ==
    /\ g_pc = "idle" /\ g_grid = <<>> /\ g_once = <<>> /\ g_twice = <<>>
    /\ g_tasks = <<>>

OptIdle ==
    /\ o_pc = "idle" /\ o_distances = <<>> /\ o_path = <<>> /\ o_best = <<>>
    /\ o_before = <<>> /\ o_improved = FALSE /\ o_iterations = 0

InitAstar ==
    /\ a_pc = "init"
    /\ a_grid \in SearchGrids
    /\ a_start \in Positions(GridRows, GridCols)
    /\ a_end \in Positions(GridRows, GridCols)
    /\ a_result = None
    /\ SolverIdle /\ TspIdle /\ MapIdle /\ JobsIdle
    /\ StoreIdle /\ GridIdle /\ OptIdle

RunAstar ==
    /\ a_pc = "init"
    /\ a_pc' = "done"
    /\ a_result' = astar_pathfinding(a_grid, a_start, a_end)
    /\ UNCHANGED <<a_grid, a_start, a_end>>
    /\ UNCHANGED <<s_vars, t_vars, m_vars, j_vars, d_vars, g_vars, o_vars>>

NextAstar == RunAstar

SpecAstar == InitAstar /\ [][NextAstar]_vars

\* reference: breadth-first search over 4-directional moves that never
\* enter an OBSTACLE cell
Walkable(grid, p) ==
    /\ InBounds(p, NumRows(grid), NumCols(grid))
    /\ grid[p[1]][p[2]].type # OBSTACLE

Adjacent(p, q) == Abs(p[1] - q[1]) + Abs(p[2] - q[2]) = 1

RECURSIVE BfsFrom(_, _, _, _, _)
BfsFrom(grid, goal, frontier, visited, d) ==
    IF goal \in frontier THEN Some(d)
    ELSE LET next == {q \in Positions(NumRows(grid), NumCols(grid)) :
                         /\ q \notin visited
                         /\ Walkable(grid, q)
                         /\ \E p \in frontier : Adjacent(p, q)}
         IN IF next = {} THEN None
            ELSE BfsFrom(grid, goal, next, visited \cup next, d + 1)

BfsDistance(grid, s, goal) == BfsFrom(grid, goal, {s}, {s}, 0)

NoObstacles(grid) ==
    \A p \in Positions(NumRows(grid), NumCols(grid)) : Walkable(grid, p)

\* C3: astar_pathfinding returns the breadth-first shortest hop count (the
\* Manhattan distance on a grid without obstacles), and None exactly when
\* the goal cannot be reached from the start.
C3_AstarEqualsBfs ==
    a_pc = "done" =>
        /\ a_result = BfsDistance(a_grid, a_start, a_end)
        /\ (NoObstacles(a_grid) => a_result = Some(heuristic(a_start, a_end)))
        /\ (a_result = None <=> BfsDistance(a_grid, a_start, a_end) = None)

\* a run in which the goal is reached only by a detour around obstacles
C3_Witness_Detour ==
    /\ a_pc = "done"
    /\ a_result # None
    /\ Val(a_result) > heuristic(a_start, a_end)

\* a run in which the goal is cut off from the start
C3_Witness_NoPath ==
    /\ a_pc = "done"
    /\ a_result = None
    /\ a_grid[a_end[1]][a_end[2]].type # OBSTACLE

----------------------------------------------------------------------------
(* Specification SpecSolver: the functions of tsp_solver.py applied to      *)
(* the points 1 .. n, 2 <= n <= MaxPoints, under every lookup that stores   *)
(* each unordered pair either not at all or in the forward direction with   *)
(* a distance of 1 .. MaxDistance, and at most one pair in the reverse      *)
(* direction as well.                                                       *)

PointList(n) == [k \in 1 .. n |-> k]

ForwardPairs(n) == {ab \in (1 .. n) \X (1 .. n) : ab[1] < ab[2]}

\* the dicts with keys among the forward pairs
ForwardLookups(n) ==
    UNION {[keys -> 1 .. MaxDistance] : keys \in SUBSET ForwardPairs(n)}

\* distances[key] = value added to a dict
WithRecord(distances, key, value) ==
    [k \in DOMAIN distances \cup {key} |->
        IF k = key THEN value ELSE distances[k]]

Lookups(n) ==
    ForwardLookups(n) \cup
    {WithRecord(d, <<ab[2], ab[1]>>, v) :
        d \in ForwardLookups(n), ab \in ForwardPairs(n), v \in 1 .. MaxDistance}

InitSolver ==
    /\ s_pc = "init"
    /\ \E n \in 2 .. MaxPoints :
          /\ s_points = PointList(n)
          /\ s_distances \in Lookups(n)
    /\ s_start = 0
    /\ s_path = None
    /\ s_result = None
    /\ AstarIdle /\ TspIdle /\ MapIdle /\ JobsIdle
    /\ StoreIdle /\ GridIdle /\ OptIdle

\* solve_tsp_bruteforce(distances, points)
RunBruteforce ==
    /\ s_pc = "init"
    /\ s_pc' = "bruteforce"
    /\ s_result' = solve_tsp_bruteforce(s_distances, s_points)
    /\ UNCHANGED <<s_points, s_distances, s_start, s_path>>
    /\ UNCHANGED <<a_vars, t_vars, m_vars, j_vars, d_vars, g_vars, o_vars>>

\* solve_tsp_nearest_neighbor(distances, points, start_point)
RunNearestNeighbor ==
    /\ s_pc = "init"
    /\ s_pc' = "nearest_neighbor"
    /\ \E start_point \in SeqToSet(s_points) \cup {0} :
          /\ s_start' = start_point
          /\ s_path' \in solve_tsp_nearest_neighbor(s_distances, s_points,
                                                    start_point)
    /\ s_result' = s_path'
    /\ UNCHANGED <<s_points, s_distances>>
    /\ UNCHANGED <<a_vars, t_vars, m_vars, j_vars, d_vars, g_vars, o_vars>>

\* improve_with_2opt(distances, path) on the nearest-neighbor path
RunTwoOpt ==
    /\ s_pc = "nearest_neighbor"
    /\ s_path # None
    /\ s_pc' = "2opt"
    /\ s_result' = Some(improve_with_2opt(s_distances, Val(s_path)))
    /\ UNCHANGED <<s_points, s_distances, s_start, s_path>>
    /\ UNCHANGED <<a_vars, t_vars, m_vars, j_vars, d_vars, g_vars, o_vars>>

NextSolver == RunBruteforce \/ RunNearestNeighbor \/ RunTwoOpt

SpecSolver == InitSolver /\ [][NextSolver]_vars

\* a path that visits every point once and has every edge known
IsPermutation(path, points) ==
    /\ Len(path) = Len(points)
    /\ SeqToSet(path) = SeqToSet(points)

\* the direction-agnostic lookup of the claims: the forward record if there
\* is one, else the reverse record
Lookup(distances, a, b) ==
    IF <<a, b>> \in DOMAIN distances THEN Some(distances[<<a, b>>])
    ELSE IF <<b, a>> \in DOMAIN distances THEN Some(distances[<<b, a>>])
    ELSE None

AllEdgesKnown(distances, path) ==
    \A i \in 1 .. Len(path) - 1 : Lookup(distances, path[i], path[i + 1]) # None

RECURSIVE TotalFrom(_, _, _)
TotalFrom(distances, path, i) ==
    IF i >= Len(path) THEN 0
    ELSE Val(Lookup(distances, path[i], path[i + 1])) + TotalFrom(distances, path, i + 1)

\* the total of a path with every edge known
Total(distances, path) == TotalFrom(distances, path, 1)

\* every arrangement of the points, as a set
AllOrders(points) ==
    {p \in [1 .. Len(points) -> SeqToSet(points)] : IsPermutation(p, points)}

ValidOrders(distances, points) ==
    {p \in AllOrders(points) : AllEdgesKnown(distances, p)}

\* C4: solve_tsp_bruteforce returns a permutation with every edge known whose
\* total is at most that of every permutation with every edge known, and
\* returns None exactly when no permutation has every edge known.
C4_BruteforceOptimal ==
    s_pc = "bruteforce" =>
        /\ (s_result = None <=> ValidOrders(s_distances, s_points) = {})
        /\ (s_result # None =>
              /\ Val(s_result) \in ValidOrders(s_distances, s_points)
              /\ \A p \in ValidOrders(s_distances, s_points) :
                    Total(s_distances, Val(s_result)) <= Total(s_distances, p))

\* brute force returned a tour although some permutations have unknown edges
\* and the valid ones differ in total
C4_Witness ==
    /\ s_pc = "bruteforce"
    /\ s_result # None
    /\ Len(s_points) >= 3
    /\ ValidOrders(s_distances, s_points) # AllOrders(s_points)
    /\ \E p \in ValidOrders(s_distances, s_points) :
          Total(s_distances, p) > Total(s_distances, Val(s_result))

\* the two directions of a pair never carry different distances
DirectionAgnostic(distances) ==
    \A ab \in DOMAIN distances :
        <<ab[2], ab[1]>> \in DOMAIN distances =>
            distances[<<ab[2], ab[1]>>] = distances[ab]

\* C5 as stated: for every lookup, the total of the path improve_with_2opt
\* returns is at most the total of the nearest-neighbor path it was given.
C5_TwoOptNeverWorse_AllLookups ==
    s_pc = "2opt" =>
        /\ AllEdgesKnown(s_distances, Val(s_result))
        /\ Total(s_distances, Val(s_result)) <= Total(s_distances, Val(s_path))

\* C5 amended: the same, for the lookups that store no pair in both
\* directions with different distances.
C5_TwoOptNeverWorse ==
    (s_pc = "2opt" /\ DirectionAgnostic(s_distances)) =>
        /\ AllEdgesKnown(s_distances, Val(s_result))
        /\ Total(s_distances, Val(s_result)) <= Total(s_distances, Val(s_path))

\* 2-opt changed a nearest-neighbor path under a direction-agnostic lookup
C5_Witness ==
    /\ s_pc = "2opt"
    /\ DirectionAgnostic(s_distances)
    /\ Val(s_result) # Val(s_path)

----------------------------------------------------------------------------
(* Specification SpecTsp: solve_tsp on the points 1 .. n of an aisle, for   *)
(* n up to MaxPoints and for the least n of the other two strategies.  An   *)
(* aisle is a row of n landmark cells: some START cells, some SHELF cells,  *)
(* some END cells, then SHELF cells.  Its distance set holds the distance   *)
(* b - a of the cells a < b under the key process_map gives the pair,       *)
(* except for the pairs of two START or END cells, which process_map never  *)
(* computes.  The chain and the ring are lookups with unknown pairs.        *)
(* random.sample may draw any of the indices 1 .. n - 1, so the loop of     *)
(* solve_tsp_heuristic is followed for the least n only: for 51 points      *)
(* there are 251,176 sets of indices to start from.                         *)

\* the least n that solve_tsp hands to nearest neighbor + 2-opt (line 53)
NearestNeighborMinPoints == BruteforceMaxPoints + 1
\* the least n that solve_tsp hands to solve_tsp_heuristic (line 60)
HeuristicMinPoints == NearestNeighborMaxPoints + 1

TspSizes == (0 .. MaxPoints) \cup {NearestNeighborMinPoints, HeuristicMinPoints}

\* the key under which process_map stores the pair of the cells a < b:
\* SHELF to SHELF in the order of the scan, START to SHELF, SHELF to END
AisleKey(a, b, starts, ends) ==
    IF a \in ends \/ b \in starts THEN <<b, a>> ELSE <<a, b>>

AisleLookup(n, starts, ends) ==
    LET endpoints == starts \cup ends
        pairs == {x \in ForwardPairs(n) :
                     ~(x[1] \in endpoints /\ x[2] \in endpoints)}
    IN [key \in {AisleKey(x[1], x[2], starts, ends) : x \in pairs}
           |-> Abs(key[2] - key[1])]

\* the START cells and the END cells of the aisle with s START cells, then
\* g SHELF cells, then e END cells
AisleStarts(s) == 1 .. s
AisleEnds(s, g, e) == s + g + 1 .. s + g + e

AisleLookups(n) ==
    {AisleLookup(n, AisleStarts(s) \cap (1 .. n),
                 AisleEnds(s, g, e) \cap (1 .. n)) :
        s \in 0 .. MaxEndpoints, g \in 0 .. MaxGap, e \in 0 .. MaxEndpoints}

\* the lookup that knows only each point and the next one, one step apart
ChainLookup(n) == [ab \in {<<k, k + 1>> : k \in 1 .. n - 1} |-> 1]

\* the lookup that knows each point and the next one, k + 1 apart when the
\* point is the k-th, and the last point and the first one, one step apart
RingLookup(n) ==
    [ab \in {<<k, k + 1>> : k \in 1 .. n - 1} \cup {<<n, 1>>}
        |-> IF ab[2] = 1 THEN 1 ELSE ab[2]]

\* the lookups solve_tsp is applied to for n points
TspLookups(n) ==
    AisleLookups(n) \cup {ChainLookup(n)}
        \cup (IF n >= HeuristicMinPoints THEN {RingLookup(n)} ELSE {})

\* the least total of the refined paths of the loop of lines 165-177, once
\* a turn has been given nn by solve_tsp_nearest_neighbor
LeastTotal(distances, nn, lowest) ==
    IF nn = None THEN lowest
    ELSE LET total == Total(distances, improve_with_2opt(distances, Val(nn)))
         IN IF lowest = None THEN Some(total)
            ELSE Some(Min(total, Val(lowest)))

InitTsp ==
    /\ t_pc = "call"
    /\ \E n \in TspSizes :
          /\ t_points = PointList(n)
          /\ t_distances \in TspLookups(n)
    /\ t_tried = {}
    /\ t_best = [path |-> None, dist |-> 0]
    /\ t_completed = FALSE
    /\ t_attempts = [turns |-> 0, failed |-> FALSE, lowest |-> None]
    /\ t_result = [kind |-> "pending", path |-> <<>>]
    /\ AstarIdle /\ SolverIdle /\ MapIdle /\ JobsIdle
    /\ StoreIdle /\ GridIdle /\ OptIdle

\* lines 42-43
SolveEmpty ==
    /\ t_pc = "call"
    /\ Len(t_points) = 0
    /\ t_pc' = "done"
    /\ t_result' = [kind |-> "tour", path |-> <<>>]
    /\ UNCHANGED <<t_points, t_distances, t_tried, t_best, t_completed,
                   t_attempts>>
    /\ UNCHANGED <<a_vars, s_vars, m_vars, j_vars, d_vars, g_vars, o_vars>>

\* lines 45-46
SolveSingle ==
    /\ t_pc = "call"
    /\ Len(t_points) = 1
    /\ t_pc' = "done"
    /\ t_result' = [kind |-> "tour", path |-> t_points]
    /\ UNCHANGED <<t_points, t_distances, t_tried, t_best, t_completed,
                   t_attempts>>
    /\ UNCHANGED <<a_vars, s_vars, m_vars, j_vars, d_vars, g_vars, o_vars>>

\* lines 49-50
SolveBruteforce ==
    /\ t_pc = "call"
    /\ Len(t_points) > 1
    /\ Len(t_points) <= BruteforceMaxPoints
    /\ t_pc' = "done"
    /\ t_result' = Returned(solve_tsp_bruteforce(t_distances, t_points))
    /\ UNCHANGED <<t_points, t_distances, t_tried, t_best, t_completed,
                   t_attempts>>
    /\ UNCHANGED <<a_vars, s_vars, m_vars, j_vars, d_vars, g_vars, o_vars>>

\* lines 53-57; without a start_point the construction starts at points[0]
SolveNearestNeighbor ==
    /\ t_pc = "call"
    /\ Len(t_points) > BruteforceMaxPoints
    /\ Len(t_points) <= NearestNeighborMaxPoints
    /\ t_pc' = "done"
    /\ \E initial_path \in
            solve_tsp_nearest_neighbor(t_distances, t_points, t_points[1]) :
          /\ t_completed' = (initial_path # None)
          /\ t_result' =
                IF initial_path = None THEN [kind |-> "none", path |-> <<>>]
                ELSE [kind |-> "tour",
                      path |-> improve_with_2opt(t_distances, Val(initial_path))]
    /\ UNCHANGED <<t_points, t_distances, t_tried, t_best, t_attempts>>
    /\ UNCHANGED <<a_vars, s_vars, m_vars, j_vars, d_vars, g_vars, o_vars>>

\* Lines 60-61 and one turn of the loop of lines 165-177.  start_indices is
\* [0] followed by random.sample(range(1, n), ...): index 0 first, then
\* indices of 1 .. n-1 drawn without replacement, in any order.  The model
\* draws each index when the loop reaches it.
HeuristicAttempt ==
    /\ t_pc \in {"call", "heuristic"}
    /\ Len(t_points) > NearestNeighborMaxPoints
    /\ Cardinality(t_tried) < Val(NumStartIndices(t_points))
    /\ \E start_idx \in NextStartIndices(t_points, t_tried) :
          /\ t_tried' = t_tried \cup {start_idx}
          /\ \E nn \in solve_tsp_nearest_neighbor(t_distances, t_points,
                                                  At(t_points, start_idx)) :
                /\ t_best' = HeuristicStep(t_distances, nn, t_best)
                /\ t_completed' = (t_completed \/ nn # None)
                /\ t_attempts' =
                      [turns |-> t_attempts.turns + 1,
                       failed |-> (t_attempts.failed \/ nn = None),
                       lowest |-> LeastTotal(t_distances, nn,
                                             t_attempts.lowest)]
    /\ t_pc' = "heuristic"
    /\ UNCHANGED <<t_points, t_distances, t_result>>
    /\ UNCHANGED <<a_vars, s_vars, m_vars, j_vars, d_vars, g_vars, o_vars>>

\* lines 179-187, once the loop is over
HeuristicFinish ==
    /\ t_pc = "heuristic"
    /\ Cardinality(t_tried) = Val(NumStartIndices(t_points))
    /\ t_pc' = "done"
    /\ t_result' = HeuristicReturn(t_distances, t_points, t_best)
    /\ UNCHANGED <<t_points, t_distances, t_tried, t_best, t_completed,
                   t_attempts>>
    /\ UNCHANGED <<a_vars, s_vars, m_vars, j_vars, d_vars, g_vars, o_vars>>

NextTsp ==
    \/ SolveEmpty
    \/ SolveSingle
    \/ SolveBruteforce
    \/ SolveNearestNeighbor
    \/ HeuristicAttempt
    \/ HeuristicFinish

SpecTsp == InitTsp /\ [][NextTsp]_vars

\* some attempt of the strategy that solve_tsp selects for these points
\* succeeds: brute force has a permutation with every edge known, or a
\* nearest-neighbor construction has returned a path
AttemptSucceeded ==
    IF Len(t_points) <= 1 THEN TRUE
    ELSE IF Len(t_points) <= BruteforceMaxPoints
         THEN ValidOrders(t_distances, t_points) # {}
         ELSE t_completed

\* C6: whenever an attempt of the selected strategy succeeds, solve_tsp
\* returns a tour that contains every input point exactly once; it returns
\* None only if no attempt completed.
C6_TourWhenAttemptSucceeds ==
    t_pc = "done" =>
        /\ (AttemptSucceeded =>
              /\ t_result.kind = "tour"
              /\ IsPermutation(t_result.path, t_points))
        /\ (t_result.kind = "none" => ~AttemptSucceeded)

\* C7: for every lookup, solve_tsp completes without raising, and what it
\* returns is None or a tour in which each two consecutive points have a
\* distance in the lookup.
C7_NeverRaisesAndEdgesKnown ==
    t_pc = "done" =>
        /\ t_result.kind # "raise"
        /\ (t_result.kind = "tour" => AllEdgesKnown(t_distances, t_result.path))

----------------------------------------------------------------------------
(* Specification SpecMap: process_map on every aisle (a grid of one row)    *)
(* of MapCols cells with at most MaxLandmarks START, END and SHELF cells.   *)
(* A SHELF cell comes without an id or with the id 1 (an int), a START or   *)
(* END cell without an id or with the id "1" (a str).  The pair tasks       *)
(* finish in any order, and a worker may raise instead of returning;        *)
(* saving the file may raise.                                               *)

LandmarkTypes == {START, END, SHELF}

MapCells ==
    {Cell(OBSTACLE, NoId), Cell(PATH, NoId)}
        \cup {Cell(SHELF, i) : i \in {NoId, IntId(1)}}
        \cup {Cell(t, i) : t \in {START, END}, i \in {NoId, StrId("1")}}

LandmarkCount(grid) ==
    Cardinality({p \in Positions(NumRows(grid), NumCols(grid)) :
                    grid[p[1]][p[2]].type \in LandmarkTypes})

MapGrids ==
    {g \in [0 .. 0 -> [0 .. MapCols - 1 -> MapCells]] :
        LandmarkCount(g) <= MaxLandmarks}

InitMap ==
    /\ m_pc = "call"
    /\ m_grid \in MapGrids
    /\ m_tasks = <<>>
    /\ m_pending = {}
    /\ m_dropped = {}
    /\ m_order = <<>>
    /\ m_distances = <<>>
    /\ m_file = None
    /\ m_result = None
    /\ AstarIdle /\ SolverIdle /\ TspIdle /\ JobsIdle
    /\ StoreIdle /\ GridIdle /\ OptIdle

\* lines 60-98: the grid is normalized in place, the tasks are listed and
\* one future is submitted for each task
SubmitTasks ==
    /\ m_pc = "call"
    /\ m_pc' = "collect"
    /\ m_grid' = normalize_grid(m_grid)
    /\ m_tasks' = Tasks(normalize_grid(m_grid))
    /\ m_pending' = 1 .. Len(Tasks(normalize_grid(m_grid)))
    /\ UNCHANGED <<m_dropped, m_order, m_distances, m_file, m_result>>
    /\ UNCHANGED <<a_vars, s_vars, t_vars, j_vars, d_vars, g_vars, o_vars>>

\* lines 100-103: as_completed yields a future whose worker returned
FutureReturns ==
    /\ m_pc = "collect"
    /\ \E i \in m_pending :
          /\ m_pending' = m_pending \ {i}
          /\ m_order' = Append(m_order, i)
          /\ m_distances' =
                Collect(m_distances, FutureResult(m_grid, m_tasks[i], FALSE))
    /\ UNCHANGED <<m_pc, m_grid, m_tasks, m_dropped, m_file, m_result>>
    /\ UNCHANGED <<a_vars, s_vars, t_vars, j_vars, d_vars, g_vars, o_vars>>

\* lines 100-106: as_completed yields a future whose worker raised
FutureRaises ==
    /\ m_pc = "collect"
    /\ \E i \in m_pending :
          /\ m_pending' = m_pending \ {i}
          /\ m_dropped' = m_dropped \cup {i}
          /\ m_distances' =
                Collect(m_distances, FutureResult(m_grid, m_tasks[i], TRUE))
    /\ UNCHANGED <<m_pc, m_grid, m_tasks, m_order, m_file, m_result>>
    /\ UNCHANGED <<a_vars, s_vars, t_vars, j_vars, d_vars, g_vars, o_vars>>

\* the variant of lines 109-111 that does not wait for the futures
SaveAndReturnEarly ==
    /\ m_pc = "collect"
    /\ m_pc' = "done"
    /\ m_file' = Some(save_distances(m_distances))
    /\ m_result' = Some(m_distances)
    /\ UNCHANGED <<m_grid, m_tasks, m_pending, m_dropped, m_order, m_distances>>
    /\ UNCHANGED <<a_vars, s_vars, t_vars, j_vars, d_vars, g_vars, o_vars>>

\* lines 109-111: every future has been collected, the file is written
SaveAndReturn ==
    /\ m_pc = "collect"
    /\ m_pending = {}
    /\ m_pc' = "done"
    /\ m_file' = Some(save_distances(m_distances))
    /\ m_result' = Some(m_distances)
    /\ UNCHANGED <<m_grid, m_tasks, m_pending, m_dropped, m_order, m_distances>>
    /\ UNCHANGED <<a_vars, s_vars, t_vars, j_vars, d_vars, g_vars, o_vars>>

\* line 109: save_distances raises and process_map lets the error through
SaveRaises ==
    /\ m_pc = "collect"
    /\ m_pending = {}
    /\ m_pc' = "raised"
    /\ m_file' \in SaveFailures(m_file)
    /\ UNCHANGED <<m_grid, m_tasks, m_pending, m_dropped, m_order, m_distances,
                   m_result>>
    /\ UNCHANGED <<a_vars, s_vars, t_vars, j_vars, d_vars, g_vars, o_vars>>

NextMap ==
    \/ SubmitTasks
    \/ FutureReturns
    \/ FutureRaises
    \/ SaveAndReturn
    \/ SaveRaises

SpecMap == InitMap /\ [][NextMap]_vars

\* the ids, as stored, of the cells of a type in the normalized grid
StoredIds(cell_type) ==
    {str(c[1]) : c \in SeqToSet(find_cells_by_type(m_grid, cell_type))}

\* how many records of a DistanceSet go from the id a to the id b
RecordCount(records, a, b) ==
    Cardinality({k \in 1 .. Len(records) :
                    records[k].from_id = a /\ records[k].to_id = b})

\* what C8 says of a DistanceSet d
EachPairStoredOnce(d) ==
    /\ \A a \in StoredIds(SHELF), b \in StoredIds(SHELF) :
          a # b => RecordCount(d, a, b) + RecordCount(d, b, a) = 1
    /\ \A s \in StoredIds(START), h \in StoredIds(SHELF) :
          RecordCount(d, s, h) = 1
    /\ \A h \in StoredIds(SHELF), e \in StoredIds(END) :
          RecordCount(d, h, e) = 1

\* C8 as stated: in the DistanceSet that process_map produces for any grid,
\* any two SHELF ids have a record in exactly one direction, stored once,
\* and each START-SHELF and each SHELF-END pair of ids is stored exactly
\* once.
C8_EachPairStoredOnce ==
    m_pc = "done" => EachPairStoredOnce(Val(m_result))

\* the ids, as stored, of the cells of a type in the normalized grid, one
\* for each cell
IdList(cell_type) ==
    [k \in 1 .. Len(find_cells_by_type(m_grid, cell_type)) |->
        str(find_cells_by_type(m_grid, cell_type)[k][1])]

NoIdTwice(ids) ==
    \A i \in 1 .. Len(ids), j \in 1 .. Len(ids) : i # j => ids[i] # ids[j]

\* no two cells of one type among START, END and SHELF carry the same id
\* once the ids are strings, and no SHELF id is the id of a START or END
\* cell; a START cell and an END cell may carry the same id
DistinctLandmarkIds ==
    /\ NoIdTwice(IdList(SHELF))
    /\ NoIdTwice(IdList(START))
    /\ NoIdTwice(IdList(END))
    /\ StoredIds(SHELF) \cap (StoredIds(START) \cup StoredIds(END)) = {}

\* the pairs of ids (from, to) of the tasks whose worker raised
DroppedPairs ==
    {<<str(m_tasks[i].from_id), str(m_tasks[i].to_id)>> : i \in m_dropped}

\* how many records a pair of ids has when each pair is stored once and
\* the pair of a worker that raised is not stored
Expected(a, b) == IF <<a, b>> \in DroppedPairs THEN 0 ELSE 1

\* C8, amended: in the DistanceSet that process_map produces for a grid
\* where no two cells of one type among START, END and SHELF carry the
\* same id after normalization and str() and no SHELF id is the id of a
\* START or END cell, any two SHELF ids have a record in exactly one
\* direction, stored once, and each START-SHELF and each SHELF-END pair of
\* ids is stored exactly once, except that a pair whose task raised has no
\* record at all.
C8_DistinctIdsStoredOnce ==
    (m_pc = "done" /\ DistinctLandmarkIds) =>
        /\ \A a \in StoredIds(SHELF), b \in StoredIds(SHELF) :
              a # b =>
                 RecordCount(Val(m_result), a, b)
                    + RecordCount(Val(m_result), b, a)
                       = Expected(a, b) * Expected(b, a)
        /\ \A st \in StoredIds(START), h \in StoredIds(SHELF) :
              RecordCount(Val(m_result), st, h) = Expected(st, h)
        /\ \A h \in StoredIds(SHELF), e \in StoredIds(END) :
              RecordCount(Val(m_result), h, e) = Expected(h, e)
        /\ m_dropped = {} => EachPairStoredOnce(Val(m_result))

\* process_map has returned the set of a grid with two SHELF cells and a
\* START or END cell, all with different ids, one of them given by the
\* caller, and every pair is stored
C8_Witness ==
    /\ m_pc = "done"
    /\ m_dropped = {}
    /\ DistinctLandmarkIds
    /\ Cardinality(StoredIds(SHELF)) = 2
    /\ StoredIds(START) \cup StoredIds(END) # {}
    /\ "1" \in StoredIds(SHELF)
    /\ Len(Val(m_result)) = 3

\* the grid search finds no path for the task
NoPath(task) == astar_pathfinding(m_grid, task.from_pos, task.to_pos) = None

\* C9: every enumerated pair for which the grid search returns no path has
\* a record with distance -1 in the result of process_map; the pair is not
\* omitted.
C9_NoPathRecorded ==
    m_pc = "done" =>
        \A i \in 1 .. Len(m_tasks) :
            (i \notin m_dropped /\ NoPath(m_tasks[i])) =>
                \E k \in 1 .. Len(Val(m_result)) :
                    /\ m_order[k] = i
                    /\ Val(m_result)[k] =
                          Distance(str(m_tasks[i].from_id),
                                   str(m_tasks[i].to_id), -1)

\* process_map has returned a set that holds a pair without a path, one of
\* whose cells is a SHELF with no neighbour other than OBSTACLE cells
Enclosed(pos) ==
    \A q \in Positions(NumRows(m_grid), NumCols(m_grid)) :
        Adjacent(pos, q) => m_grid[q[1]][q[2]].type = OBSTACLE

C9_Witness ==
    /\ m_pc = "done"
    /\ \E i \in 1 .. Len(m_tasks) :
          /\ i \notin m_dropped
          /\ NoPath(m_tasks[i])
          /\ m_grid[m_tasks[i].from_pos[1]][m_tasks[i].from_pos[2]].type = SHELF
          /\ Enclosed(m_tasks[i].from_pos)

\* C10: when workers raise, process_map still returns: the DistanceSet it
\* returns holds the record of each task whose worker did not raise, once,
\* and of no other task, and the file holds that set; process_map raises
\* only when every task has been collected, from saving.
C10_FailedPairDropped ==
    /\ m_pc = "done" =>
          /\ Len(Val(m_result)) = Len(m_order)
          /\ SeqToSet(m_order) = (1 .. Len(m_tasks)) \ m_dropped
          /\ Cardinality(SeqToSet(m_order)) = Len(m_order)
          /\ \A k \in 1 .. Len(m_order) :
                k <= Len(Val(m_result)) =>
                    Val(m_result)[k] =
                        calculate_distance(m_grid, m_tasks[m_order[k]].from_id,
                                           m_tasks[m_order[k]].from_pos,
                                           m_tasks[m_order[k]].to_id,
                                           m_tasks[m_order[k]].to_pos)
          /\ m_file = Some(save_distances(Val(m_result)))
    /\ m_pc = "raised" => m_pending = {}

\* process_map has returned after the worker of one pair raised and the
\* worker of another pair returned
C10_Witness ==
    /\ m_pc = "done"
    /\ Cardinality(m_dropped) = 1
    /\ Len(Val(m_result)) >= 1
    /\ m_file # None

----------------------------------------------------------------------------
(* Specification SpecJobs: the consumer thread of start_consuming hands     *)
(* one job body after the other to handle_map_processing or handle_tsp.     *)
(* The bodies are unparseable text, JSON that is no object, and objects     *)
(* whose jobid, mapid and payload are each absent or present (jobid also    *)
(* null); the maps are the aisles of JobCols cells that are SHELF or        *)
(* OBSTACLE, and the points are shelves of such an aisle.                   *)

\* the mapids of the requests, a string and a number, and their files
MapIds == {Js("m1"), Num(1)}
MapFiles == {FileName(m) : m \in MapIds}

JobId(k) == "job" \o ToString(k)

JobGrids ==
    [0 .. 0 -> [0 .. JobCols - 1 -> {Cell(SHELF, NoId), Cell(OBSTACLE, NoId)}]]

\* the sequences without repetition of elements of S
RECURSIVE DistinctSeqs(_)
DistinctSeqs(S) ==
    {<<>>} \cup UNION {{<<x>> \o s : s \in DistinctSeqs(S \ {x})} : x \in S}

PointLists ==
    DistinctSeqs({GeneratedId(SHELF, 0, col_idx) : col_idx \in 0 .. JobCols - 1})

Bodies(k, payloads) ==
    {Unparseable, NotObject}
        \cup {Object(jobid, mapid, payload) :
                 jobid \in {Missing, Null, Num(k), Js(JobId(k))},
                 mapid \in {Missing} \cup MapIds,
                 payload \in {Missing} \cup {Js(p) : p \in payloads}}

InitJobs ==
    /\ j_consuming = TRUE
    /\ j_files = [m \in MapFiles |-> None]
    /\ j_delivered = 0
    /\ j_last = NoJob
    /\ AstarIdle /\ SolverIdle /\ TspIdle /\ MapIdle
    /\ StoreIdle /\ GridIdle /\ OptIdle

\* a callback that raises ends start_consuming, and with it the thread
DeliverMapJob ==
    /\ j_consuming
    /\ j_delivered < MaxJobs
    /\ j_delivered' = j_delivered + 1
    /\ \E body \in Bodies(j_delivered + 1, JobGrids) :
          \E h \in handle_map_processing(j_files, body) :
              /\ j_files' = h.files
              /\ j_last' = Job("handle_map_processing", body, h.trace, h.raised)
              /\ j_consuming' = ~h.raised
    /\ UNCHANGED <<a_vars, s_vars, t_vars, m_vars, d_vars, g_vars, o_vars>>

DeliverTspJob ==
    /\ j_consuming
    /\ j_delivered < MaxJobs
    /\ j_delivered' = j_delivered + 1
    /\ \E body \in Bodies(j_delivered + 1, PointLists) :
          \E h \in handle_tsp(j_files, body) :
              /\ j_files' = h.files
              /\ j_last' = Job("handle_tsp", body, h.trace, h.raised)
              /\ j_consuming' = ~h.raised
    /\ UNCHANGED <<a_vars, s_vars, t_vars, m_vars, d_vars, g_vars, o_vars>>

NextJobs == DeliverMapJob \/ DeliverTspJob

SpecJobs == InitJobs /\ [][NextJobs]_vars

\* the response queue that matches the request queue of a handler
ResponseQueue(handler) ==
    IF handler = "handle_map_processing" THEN map_response_queue
    ELSE tsp_response_queue

\* how many messages a call put on a queue
PublishedCount(trace, queue) ==
    Cardinality({k \in 1 .. Len(trace) :
                    trace[k].ev = "basic_publish" /\ trace[k].queue = queue})

PublishFailed(trace) ==
    \E k \in 1 .. Len(trace) : trace[k].ev = "publish_raises"

\* C1: for every job delivered to handle_map_processing or handle_tsp,
\* well-formed or malformed, succeeding or failing, exactly one outcome
\* message is published to the matching response queue, provided no call
\* of publish_message fails.
C1_ExactlyOneOutcome ==
    (j_last.handler # "none" /\ ~PublishFailed(j_last.trace)) =>
        PublishedCount(j_last.trace, ResponseQueue(j_last.handler)) = 1

\* C2: no fault raised while a job is handled leaves handle_map_processing
\* or handle_tsp: the handler returns normally and the consumer keeps
\* running.
C2_NoFaultPropagates ==
    j_last.handler # "none" => (~j_last.raised /\ j_consuming)

----------------------------------------------------------------------------
(* Specification SpecStore: save_distances and then load_distances of the   *)
(* same map, on every list of at most MaxRecords records over StoreIds     *)
(* with the distance -1 or 1 .. MaxDistance.                               *)

StoreIds == {"1", "2", "shelf_0_0"}

StoreRecords ==
    {Distance(a, b, v) : a \in StoreIds, b \in StoreIds,
                         v \in {-1} \cup (1 .. MaxDistance)}

StoreLists == UNION {[1 .. n -> StoreRecords] : n \in 0 .. MaxRecords}

InitStore ==
    /\ d_pc = "init"
    /\ d_distances \in StoreLists
    /\ d_file = None
    /\ d_loaded = <<>>
    /\ AstarIdle /\ SolverIdle /\ TspIdle /\ MapIdle /\ JobsIdle
    /\ GridIdle /\ OptIdle

\* save_distances(mapid, distances)
SaveDistances ==
    /\ d_pc = "init"
    /\ d_pc' = "saved"
    /\ d_file' = Some(save_distances(d_distances))
    /\ UNCHANGED <<d_distances, d_loaded>>
    /\ UNCHANGED <<a_vars, s_vars, t_vars, m_vars, j_vars, g_vars, o_vars>>

\* save_distances(mapid, distances) raises OSError
SaveDistancesRaises ==
    /\ d_pc = "init"
    /\ d_pc' = "unsaved"
    /\ d_file' \in SaveFailures(d_file)
    /\ UNCHANGED <<d_distances, d_loaded>>
    /\ UNCHANGED <<a_vars, s_vars, t_vars, m_vars, j_vars, g_vars, o_vars>>

\* load_distances(mapid) with the file in place
LoadDistances ==
    /\ d_pc = "saved"
    /\ d_pc' = "loaded"
    /\ d_loaded' = load_distances(Val(d_file))
    /\ UNCHANGED <<d_distances, d_file>>
    /\ UNCHANGED <<a_vars, s_vars, t_vars, m_vars, j_vars, g_vars, o_vars>>

\* load_distances(mapid) without the file: lines 125-126 raise
LoadMissing ==
    /\ d_pc \in {"init", "unsaved"}
    /\ LoadError(d_file) = Some("FileNotFoundError")
    /\ d_pc' = "notfound"
    /\ UNCHANGED <<d_distances, d_file, d_loaded>>
    /\ UNCHANGED <<a_vars, s_vars, t_vars, m_vars, j_vars, g_vars, o_vars>>

\* load_distances(mapid) with the file that a failed write left: json.load
\* raises at line 129
LoadTruncated ==
    /\ d_pc = "unsaved"
    /\ LoadError(d_file) = Some("JSONDecodeError")
    /\ d_pc' = "undecodable"
    /\ UNCHANGED <<d_distances, d_file, d_loaded>>
    /\ UNCHANGED <<a_vars, s_vars, t_vars, m_vars, j_vars, g_vars, o_vars>>

NextStore ==
    \/ SaveDistances
    \/ SaveDistancesRaises
    \/ LoadDistances
    \/ LoadMissing
    \/ LoadTruncated

SpecStore == InitStore /\ [][NextStore]_vars

\* the indices of the records of a list stored as (a, b)
StoredAs(records, a, b) ==
    {k \in 1 .. Len(records) :
        records[k].from_id = a /\ records[k].to_id = b}

Last(S) == CHOOSE k \in S : \A other \in S : other <= k

\* the lookup of a list of records for the unordered pair of a and b: the
\* record stored as (a, b), else the record stored as (b, a), else unknown;
\* of several records stored for one direction the last one counts
SetLookup(records, a, b) ==
    IF StoredAs(records, a, b) # {}
    THEN Some(records[Last(StoredAs(records, a, b))].distance)
    ELSE IF StoredAs(records, b, a) # {}
         THEN Some(records[Last(StoredAs(records, b, a))].distance)
         ELSE None

\* C11: after save_distances and load_distances of the same map, get_distance
\* on the loaded dictionary returns for every pair of ids, queried in either
\* order, what the lookup of the saved list returns: the same distance, or
\* unknown when the list has no record of the pair.
C11_RoundTripLookup ==
    d_pc = "loaded" =>
        \A a \in StoreIds, b \in StoreIds :
            get_distance(d_loaded, a, b) = SetLookup(d_distances, a, b)

\* a list of two pairs was saved and loaded, and a pair stored in one
\* direction only is found when queried in the other direction
C11_Witness ==
    /\ d_pc = "loaded"
    /\ Len(d_distances) = 2
    /\ \E a \in StoreIds, b \in StoreIds :
          /\ a # b
          /\ <<a, b>> \notin DOMAIN d_loaded
          /\ <<b, a>> \in DOMAIN d_loaded
          /\ get_distance(d_loaded, a, b) = Some(d_loaded[<<b, a>>])

----------------------------------------------------------------------------
(* Specification SpecGrid: normalize_grid, normalize_grid again, and the    *)
(* tasks of process_map, on every grid of NormRows x NormCols cells of any  *)
(* type in which at most MaxGivenIds cells arrive with an id.               *)

\* the ids a cell arrives with: the empty string, a string of the form of
\* a generated id, an integer
GivenIds == {StrId(""), StrId("shelf_0_0"), IntId(0)}

GivenIdCount(grid) ==
    Cardinality({p \in Positions(NormRows, NormCols) :
                    grid[p[1]][p[2]].id # NoId})

NormGrids ==
    {g \in [0 .. NormRows - 1 ->
               [0 .. NormCols - 1 ->
                   {Cell(t, i) : t \in EType, i \in {NoId} \cup GivenIds}]] :
        GivenIdCount(g) <= MaxGivenIds}

InitGrid ==
    /\ g_pc = "init"
    /\ g_grid \in NormGrids
    /\ g_once = <<>>
    /\ g_twice = <<>>
    /\ g_tasks = <<>>
    /\ AstarIdle /\ SolverIdle /\ TspIdle /\ MapIdle /\ JobsIdle
    /\ StoreIdle /\ OptIdle

\* line 60: grid = self.normalize_grid(grid)
Normalize ==
    /\ g_pc = "init"
    /\ g_pc' = "once"
    /\ g_once' = normalize_grid(g_grid)
    /\ UNCHANGED <<g_grid, g_twice, g_tasks>>
    /\ UNCHANGED <<a_vars, s_vars, t_vars, m_vars, j_vars, d_vars, o_vars>>

\* normalize_grid applied to the grid it returned
NormalizeAgain ==
    /\ g_pc = "once"
    /\ g_pc' = "twice"
    /\ g_twice' = normalize_grid(g_once)
    /\ UNCHANGED <<g_grid, g_once, g_tasks>>
    /\ UNCHANGED <<a_vars, s_vars, t_vars, m_vars, j_vars, d_vars, o_vars>>

\* lines 63-83: tasks, from the normalized grid
EnumerateTasks ==
    /\ g_pc = "once"
    /\ g_pc' = "tasks"
    /\ g_tasks' = Tasks(g_once)
    /\ UNCHANGED <<g_grid, g_once, g_twice>>
    /\ UNCHANGED <<a_vars, s_vars, t_vars, m_vars, j_vars, d_vars, o_vars>>

NextGrid == Normalize \/ NormalizeAgain \/ EnumerateTasks

SpecGrid == InitGrid /\ [][NextGrid]_vars

RoleLowercase ==
    [t \in EType |->
        CASE t = OBSTACLE -> "obstacle" [] t = PATH -> "path"
          [] t = START -> "start" [] t = END -> "end" [] t = SHELF -> "shelf"]

Digit == [n \in 0 .. 9 |-> SubSeq("0123456789", n + 1, n + 1)]

\* '{role-lowercase}_{row}_{col}'
RolePositionId(t, row, col) ==
    StrId(RoleLowercase[t] \o "_" \o Digit[row] \o "_" \o Digit[col])

NonEmptyId(id) == id # NoId /\ str(id) # ""

LackedIdGetsRolePositionId ==
    \A p \in Positions(NormRows, NormCols) :
        g_grid[p[1]][p[2]].id = NoId =>
            g_once[p[1]][p[2]] =
                Cell(g_grid[p[1]][p[2]].type,
                     RolePositionId(g_grid[p[1]][p[2]].type, p[1], p[2]))

\* C12 as stated: after normalize_grid every cell of the grid has a
\* non-empty id, and a cell that lacked an id has the id
\* '{role-lowercase}_{row}_{col}' of its own role and position.
C12_EveryIdNonEmpty ==
    g_pc # "init" =>
        /\ \A p \in Positions(NormRows, NormCols) :
              NonEmptyId(g_once[p[1]][p[2]].id)
        /\ LackedIdGetsRolePositionId

\* C12: after normalize_grid every cell of the grid has an id, which is
\* non-empty unless the cell arrived with the empty string as its id, and a
\* cell that lacked an id has the id '{role-lowercase}_{row}_{col}' of its
\* own role and position.
C12_EveryCellHasId ==
    g_pc # "init" =>
        /\ \A p \in Positions(NormRows, NormCols) :
              /\ g_once[p[1]][p[2]].id # NoId
              /\ g_grid[p[1]][p[2]].id # StrId("") =>
                    NonEmptyId(g_once[p[1]][p[2]].id)
        /\ LackedIdGetsRolePositionId

\* a grid was normalized in which a SHELF in the second row lacked an id
\* and another cell arrived with an integer id
C12_Witness ==
    /\ g_pc = "once"
    /\ g_grid[1][1] = Cell(SHELF, NoId)
    /\ g_once[1][1].id = StrId("shelf_1_1")
    /\ g_grid[0][0].id = IntId(0)

\* C13: normalize_grid never changes an id that is already present (nor the
\* type of a cell), and normalizing the normalized grid again yields the
\* same ids.
C13_NormalizeIdempotent ==
    /\ g_pc # "init" =>
          \A p \in Positions(NormRows, NormCols) :
              /\ g_once[p[1]][p[2]].type = g_grid[p[1]][p[2]].type
              /\ g_grid[p[1]][p[2]].id # NoId =>
                    g_once[p[1]][p[2]].id = g_grid[p[1]][p[2]].id
    /\ g_pc = "twice" => g_twice = g_once

\* a grid was normalized twice in which one cell lacked an id and another
\* arrived with the id that the first normalization generates elsewhere
C13_Witness ==
    /\ g_pc = "twice"
    /\ g_grid[0][0] = Cell(SHELF, NoId)
    /\ g_grid[1][1] = Cell(START, StrId("shelf_0_0"))
    /\ g_twice[0][0].id = StrId("shelf_0_0")
    /\ g_twice[1][1].id = StrId("shelf_0_0")

\* the positions of the cells of a type
CellsOfType(grid, t) ==
    {p \in Positions(NormRows, NormCols) : grid[p[1]][p[2]].type = t}

\* p comes before q in the row-major scan
ScannedBefore(p, q) == p[1] < q[1] \/ (p[1] = q[1] /\ p[2] < q[2])

\* the pairs of positions that are to be enumerated
RequiredPairs(grid) ==
    {pq \in CellsOfType(grid, SHELF) \X CellsOfType(grid, SHELF) :
        ScannedBefore(pq[1], pq[2])}
    \cup (CellsOfType(grid, START) \X CellsOfType(grid, SHELF))
    \cup (CellsOfType(grid, SHELF) \X CellsOfType(grid, END))

\* C19: the tasks of process_map are exactly, each once and with the ids of
\* its two cells: every pair of distinct SHELF cells with the cell scanned
\* first as the from side, every START cell with every SHELF cell, and
\* every SHELF cell with every END cell; so no task pairs a START with a
\* START, an END with an END, a START with an END, or a cell with itself.
C19_ExactlyTheRequiredPairs ==
    g_pc = "tasks" =>
        /\ {<<g_tasks[k].from_pos, g_tasks[k].to_pos>> : k \in DOMAIN g_tasks}
              = RequiredPairs(g_once)
        /\ Len(g_tasks) = Cardinality(RequiredPairs(g_once))
        /\ \A k \in DOMAIN g_tasks :
              LET from == g_tasks[k].from_pos
                  to == g_tasks[k].to_pos
              IN /\ g_tasks[k].from_id = g_once[from[1]][from[2]].id
                 /\ g_tasks[k].to_id = g_once[to[1]][to[2]].id
                 /\ from # to
                 /\ g_once[from[1]][from[2]].type = SHELF
                       \/ g_once[to[1]][to[2]].type = SHELF

\* the tasks of a grid with a START, an END and two SHELF cells were
\* enumerated: five tasks, none of them for the START and the END
C19_Witness ==
    /\ g_pc = "tasks"
    /\ Cardinality(CellsOfType(g_once, START)) = 1
    /\ Cardinality(CellsOfType(g_once, END)) = 1
    /\ Cardinality(CellsOfType(g_once, SHELF)) = 2
    /\ Len(g_tasks) = 5

\* the outcome messages that a call put on the queue of tour outcomes
TourOutcomes(trace) ==
    {trace[k].message : k \in {i \in 1 .. Len(trace) :
        trace[i].ev = "basic_publish" /\ trace[i].queue = tsp_response_queue}}

\* the job delivered last is a well-formed tour request
TourRequested ==
    j_last.handler = "handle_tsp" /\ TSPRequestError(j_last.body) = None

\* ... against a map whose file holds no list of records: no map job for
\* the mapid wrote one, or the write of the last one failed
DatasetNotFound ==
    TourRequested /\ LoadError(j_files[FileName(j_last.body.mapid)]) # None

\* ... for which solve_tsp returns None
NoTour ==
    /\ TourRequested
    /\ LoadError(j_files[FileName(j_last.body.mapid)]) = None
    /\ \A r \in solve_tsp(load_distances(Val(j_files[FileName(j_last.body.mapid)])),
                          Points(JsVal(j_last.body.payload))) : r.kind = "none"

NotFoundMessage(mapid) ==
    Some(<<"Error processing TSP", "Map data not found for mapid", mapid>>)

\* C14: a tour request against a map for which nothing was persisted puts
\* one error outcome on the queue whose message is the not-found message,
\* and a tour request for which solve_tsp returns None puts one error
\* outcome on the queue whose message is another one (unless the call of
\* publish_message fails); in neither case is a complete outcome put on
\* the queue.
C14_NotFoundAndNoTourAreErrors ==
    /\ DatasetNotFound =>
          /\ ~PublishFailed(j_last.trace) =>
                \E o \in TourOutcomes(j_last.trace) :
                    /\ TourOutcomes(j_last.trace) = {o}
                    /\ o.status = "error"
                    /\ o.errormessage =
                          NotFoundMessage(FileName(j_last.body.mapid))
          /\ \A o \in TourOutcomes(j_last.trace) : o.status # "complete"
    /\ NoTour =>
          /\ ~PublishFailed(j_last.trace) =>
                \E o \in TourOutcomes(j_last.trace) :
                    /\ TourOutcomes(j_last.trace) = {o}
                    /\ o.status = "error"
                    /\ o.errormessage # None
                    /\ o.errormessage #
                          NotFoundMessage(FileName(j_last.body.mapid))
          /\ \A o \in TourOutcomes(j_last.trace) : o.status # "complete"

\* an event that puts an outcome message on the response queue of a handler
OutcomeProduced(handler, event) ==
    event.ev = "basic_publish" /\ event.queue = ResponseQueue(handler)

\* an event that logs that the outcome message could not be sent
ProductionFailureLogged(event) ==
    /\ event.ev = "print"
    /\ event.message \in {<<"Failed to send map error response to queue">>,
                          <<"Failed to send TSP error response to queue">>}

\* C15: each delivered job message is acknowledged exactly once, and before
\* the acknowledgement an outcome message for the job was put on the
\* response queue, or sending it failed and that failure was logged.
C15_AckedOnceAfterOutcome ==
    j_last.handler # "none" =>
        LET acks == {k \in 1 .. Len(j_last.trace) : j_last.trace[k] = Acked}
        IN /\ Cardinality(acks) = 1
           /\ \A k \in acks :
                 \E i \in 1 .. k - 1 :
                     \/ OutcomeProduced(j_last.handler, j_last.trace[i])
                     \/ ProductionFailureLogged(j_last.trace[i])

----------------------------------------------------------------------------
(* Specification SpecOpt: the while loops of improve_with_2opt and          *)
(* improve_with_3opt, one pass at a time.  improve_with_2opt runs on every  *)
(* arrangement of 4 points under every lookup that stores each pair not at  *)
(* all or in the forward direction, and on the points 1 .. 5 in order and   *)
(* in reverse order under a lookup that stores every pair in both           *)
(* directions with distances chosen so that the swaps undo one another.     *)
(* improve_with_3opt                                                        *)
(* runs on the points 1 .. 5 in order, under every lookup that stores       *)
(* every pair in the forward direction, under the chain lookup, and under   *)
(* a lookup with distances up to 3.                                         *)

\* the fewest points for which the ranges of lines 329-331 hold a triple
ThreeOptMinPoints == 5

OptForwardLookups(n, values) ==
    UNION {[keys -> values] : keys \in SUBSET ForwardPairs(n)}

OptCompleteLookups(n, values) == [ForwardPairs(n) -> values]

\* a lookup on which improve_with_2opt revisits the arrangements it left
OpposedLookup ==
    (<<1, 2>> :> 3) @@ (<<1, 3>> :> 2) @@ (<<1, 4>> :> 3) @@ (<<1, 5>> :> 2)
    @@ (<<2, 1>> :> 3) @@ (<<2, 3>> :> 1) @@ (<<2, 4>> :> 3) @@ (<<2, 5>> :> 1)
    @@ (<<3, 1>> :> 3) @@ (<<3, 2>> :> 1) @@ (<<3, 4>> :> 1) @@ (<<3, 5>> :> 3)
    @@ (<<4, 1>> :> 1) @@ (<<4, 2>> :> 2) @@ (<<4, 3>> :> 3) @@ (<<4, 5>> :> 3)
    @@ (<<5, 1>> :> 1) @@ (<<5, 2>> :> 3) @@ (<<5, 3>> :> 1) @@ (<<5, 4>> :> 1)

\* every pair at distance 1, but 1 and 2 at distance 2 and 2 and 4 at
\* distance 3
DetourLookup ==
    [ab \in ForwardPairs(ThreeOptMinPoints) |->
        IF ab = <<1, 2>> THEN 2 ELSE IF ab = <<2, 4>> THEN 3 ELSE 1]

InitOpt ==
    /\ \/ /\ o_pc = "2opt"
          /\ \/ /\ o_path \in AllOrders(PointList(TwoOptPoints))
                /\ o_distances \in
                      OptForwardLookups(TwoOptPoints, 1 .. OptMaxDistance)
             \/ /\ o_path \in {PointList(ThreeOptMinPoints),
                               Reverse(PointList(ThreeOptMinPoints))}
                /\ o_distances = OpposedLookup
       \/ /\ o_pc = "3opt"
          /\ o_path = PointList(ThreeOptMinPoints)
          /\ o_distances \in
                OptCompleteLookups(ThreeOptMinPoints, 1 .. OptMaxDistance)
                   \cup {ChainLookup(ThreeOptMinPoints), DetourLookup}
    /\ o_best = o_path
    /\ o_before = o_path
    /\ o_improved = TRUE
    /\ o_iterations = 0
    /\ AstarIdle /\ SolverIdle /\ TspIdle /\ MapIdle /\ JobsIdle
    /\ StoreIdle /\ GridIdle

\* the variant of the loop condition that allows one pass more
LoopContinuesOnceMore(improved, iterations, max_iterations) ==
    improved /\ iterations <= max_iterations

\* lines 250 and 325: while improved and iterations < max_iterations
LoopContinues(improved, iterations, max_iterations) ==
    improved /\ iterations < max_iterations

\* lines 251-294: one pass of improve_with_2opt
TwoOptPass ==
    /\ o_pc = "2opt"
    /\ LoopContinues(o_improved, o_iterations, TwoOptMaxIterations)
    /\ o_iterations' = o_iterations + 1
    /\ o_before' = o_best
    /\ LET hit == TwoOptFirst(o_distances, o_best)
       IN IF hit = None
          THEN o_improved' = FALSE /\ o_best' = o_best
          ELSE /\ o_improved' = TRUE
               /\ o_best' = TwoOptSwap(o_best, Val(hit)[1], Val(hit)[2])
    /\ UNCHANGED <<o_pc, o_distances, o_path>>
    /\ UNCHANGED <<a_vars, s_vars, t_vars, m_vars, j_vars, d_vars, g_vars>>

\* line 296: return best_path
TwoOptReturn ==
    /\ o_pc = "2opt"
    /\ ~LoopContinues(o_improved, o_iterations, TwoOptMaxIterations)
    /\ o_pc' = "2opt_done"
    /\ UNCHANGED <<o_distances, o_path, o_best, o_before, o_improved,
                   o_iterations>>
    /\ UNCHANGED <<a_vars, s_vars, t_vars, m_vars, j_vars, d_vars, g_vars>>

\* lines 326-365: one pass of improve_with_3opt; a TypeError of lines 336-354
\* leaves the function
ThreeOptPass ==
    /\ o_pc = "3opt"
    /\ LoopContinues(o_improved, o_iterations, ThreeOptMaxIterations)
    /\ o_iterations' = o_iterations + 1
    /\ o_before' = o_best
    /\ LET hit == ThreeOptFirst(o_distances, o_best)
       IN IF hit = None
          THEN o_improved' = FALSE /\ o_best' = o_best /\ o_pc' = o_pc
          ELSE IF ThreeOptTry(o_distances, o_best,
                              Val(hit)[1], Val(hit)[2], Val(hit)[3]) = "raise"
          THEN o_improved' = FALSE /\ o_best' = o_best /\ o_pc' = "3opt_raised"
          ELSE /\ o_improved' = TRUE
               /\ o_best' = ThreeOptNewPath(o_best,
                                Val(hit)[1], Val(hit)[2], Val(hit)[3])
               /\ o_pc' = o_pc
    /\ UNCHANGED <<o_distances, o_path>>
    /\ UNCHANGED <<a_vars, s_vars, t_vars, m_vars, j_vars, d_vars, g_vars>>

\* line 367: return best_path
ThreeOptReturn ==
    /\ o_pc = "3opt"
    /\ ~LoopContinues(o_improved, o_iterations, ThreeOptMaxIterations)
    /\ o_pc' = "3opt_done"
    /\ UNCHANGED <<o_distances, o_path, o_best, o_before, o_improved,
                   o_iterations>>
    /\ UNCHANGED <<a_vars, s_vars, t_vars, m_vars, j_vars, d_vars, g_vars>>

NextOpt == TwoOptPass \/ TwoOptReturn \/ ThreeOptPass \/ ThreeOptReturn

SpecOpt == InitOpt /\ [][NextOpt]_vars

\* the loops are not suspended forever
SpecOptFair == SpecOpt /\ WF_vars(NextOpt)

\* the passes, taken one at a time, give what the functions return
PassesAgreeWithFunctions ==
    /\ o_pc = "2opt_done" => o_best = improve_with_2opt(o_distances, o_path)
    /\ o_pc = "3opt_done" =>
          improve_with_3opt(o_distances, o_path)
              = [raised |-> FALSE, path |-> o_best]
    /\ o_pc = "3opt_raised" => improve_with_3opt(o_distances, o_path).raised

PassesBounded ==
    /\ o_pc \in {"2opt", "2opt_done"} => o_iterations <= 1000
    /\ o_pc \in {"3opt", "3opt_done", "3opt_raised"} => o_iterations <= 100
    /\ o_pc = "2opt_done" => (~o_improved \/ o_iterations = 1000)
    /\ o_pc = "3opt_done" => (~o_improved \/ o_iterations = 100)
    /\ (o_pc \in {"2opt", "2opt_done", "3opt", "3opt_done"} /\ ~o_improved) =>
          o_best = o_before

\* each pass applies at most one move and counts as one iteration
OneMovePerPass ==
    (o_pc \in {"2opt", "3opt"} /\ o_iterations' # o_iterations) =>
        /\ o_iterations' = o_iterations + 1
        /\ o_best' # o_best => o_improved'

\* a pass that finds no improvement is the last one
StopsAfterIdlePass ==
    (o_pc \in {"2opt", "3opt"} /\ ~o_improved) =>
        o_pc' \in {"2opt_done", "3opt_done"}

\* C16: the loops of improve_with_2opt and improve_with_3opt end for every
\* lookup, also one on which the moves undo one another: improve_with_2opt
\* makes at most 1000 passes and improve_with_3opt at most 100, each pass
\* applies at most one move, and a loop that has not reached its cap ends
\* with the first pass that finds no improvement.
C16_LoopsEndWithinCaps ==
    /\ []PassesBounded
    /\ [][OneMovePerPass /\ StopsAfterIdlePass]_vars
    /\ <>(o_pc \in {"2opt_done", "3opt_done", "3opt_raised"})

\* improve_with_2opt returned after 1000 passes that each reversed a segment
C16_Witness ==
    /\ o_pc = "2opt_done"
    /\ o_iterations = TwoOptMaxIterations
    /\ o_improved
    /\ o_best # o_before

\* C17: every reconnection that improve_with_3opt applies strictly reduces
\* the total distance of the path, and the total distance of the path it
\* returns is at most that of the path it was given.
C17_ThreeOptOnlyShortens ==
    (o_pc \in {"3opt", "3opt_done"} /\ AllEdgesKnown(o_distances, o_path)
        /\ AllEdgesKnown(o_distances, o_best)
        /\ AllEdgesKnown(o_distances, o_before)) =>
        /\ o_best # o_before =>
              Total(o_distances, o_best) < Total(o_distances, o_before)
        /\ Total(o_distances, o_best) <= Total(o_distances, o_path)

----------------------------------------------------------------------------
(* Completion order of the pair tasks, under SpecMap *)

\* the record that the worker of a task returns
RecordOf(task) ==
    calculate_distance(m_grid, task.from_id, task.from_pos,
                       task.to_id, task.to_pos)

\* records holds the records of the tasks whose worker returned, one for
\* each such task, in the order in which the tasks completed
HoldsTheReturnedRecords(records) ==
    /\ Len(records) = Len(m_order)
    /\ Len(m_order) = Cardinality(SeqToSet(m_order))
    /\ SeqToSet(m_order) = (1 .. Len(m_tasks)) \ m_dropped
    /\ \A k \in 1 .. Len(m_order) : records[k] = RecordOf(m_tasks[m_order[k]])

\* C18: whatever the order in which the pair tasks of a grid complete, the
\* records that process_map returns and the records it writes to the file
\* are the records of the tasks whose worker returned, one for each task
\* (only their order follows the completion order), and the file is
\* written only when every pair task has finished.
C18_SameRecordsInAnyOrder ==
    /\ m_file # None => m_pending = {}
    /\ m_pc = "done" =>
          /\ m_pending = {}
          /\ HoldsTheReturnedRecords(Val(m_result))
          /\ Val(m_file) = Val(m_result)

\* three pair tasks completed in an order other than the one they were
\* submitted in, none was dropped, and the records were saved and returned
C18_Witness ==
    /\ m_pc = "done"
    /\ m_dropped = {}
    /\ Len(m_order) = 3
    /\ m_order[1] > m_order[2]
    /\ Val(m_result)[1] # Val(m_result)[2]

----------------------------------------------------------------------------
(* Nearest-neighbor construction, under SpecSolver *)

\* the point the construction starts at: the given one, the first point
\* when none is given
StartOf(points, start_point) ==
    IF start_point = 0 THEN points[1] ELSE start_point

\* the unvisited points after the first k points of a path
Unvisited(points, path, k) ==
    SeqToSet(points) \ {path[i] : i \in 1 .. k}

\* the unvisited points with a known distance to the k-th point of a path
Reachable(distances, points, path, k) ==
    {q \in Unvisited(points, path, k) : Lookup(distances, path[k], q) # None}

\* path starts at start and each further point is an unvisited point whose
\* known distance to the point before it is least
Greedy(distances, points, start, path) ==
    /\ Len(path) >= 1
    /\ path[1] = start
    /\ \A k \in 1 .. Len(path) - 1 :
          /\ path[k + 1] \in Reachable(distances, points, path, k)
          /\ \A q \in Reachable(distances, points, path, k) :
                Val(Lookup(distances, path[k], path[k + 1]))
                    <= Val(Lookup(distances, path[k], q))

\* the sequences of 1 to n points
Prefixes(points) ==
    UNION {[1 .. k -> SeqToSet(points)] : k \in 1 .. Len(points)}

\* C20: solve_tsp_nearest_neighbor starts at the given point (the first
\* point when none is given) and appends at every step an unvisited point
\* whose known distance to the tail is least; it returns None only after
\* such steps have led to a tail from which no unvisited point has a known
\* distance, and otherwise returns a path that holds every point once.
C20_NearestNeighborGreedy ==
    s_pc = "nearest_neighbor" =>
        LET start == StartOf(s_points, s_start)
        IN IF s_path = None
           THEN \E q \in Prefixes(s_points) :
                   /\ Greedy(s_distances, s_points, start, q)
                   /\ Len(q) < Len(s_points)
                   /\ Reachable(s_distances, s_points, q, Len(q)) = {}
           ELSE /\ Greedy(s_distances, s_points, start, Val(s_path))
                /\ IsPermutation(Val(s_path), s_points)

\* from the third of four points the construction went to the nearest
\* point, although another one was known, and visited all four
C20_Witness ==
    /\ s_pc = "nearest_neighbor"
    /\ s_start = 3
    /\ s_path # None
    /\ Len(Val(s_path)) = 4
    /\ \E q \in SeqToSet(s_points) :
          /\ Lookup(s_distances, 3, q) # None
          /\ Val(Lookup(s_distances, 3, q))
                > Val(Lookup(s_distances, 3, Val(s_path)[2]))

----------------------------------------------------------------------------
(* The multi-start strategy of solve_tsp_heuristic, under SpecTsp           *)

\* the points the loop of lines 165-177 has started a construction from
StartingPoints == {At(t_points, start_idx) : start_idx \in t_tried}

\* what solve_tsp gives when improve_with_3opt is applied to path
AfterThreeOpt(path) ==
    LET r == improve_with_3opt(t_distances, path)
    IN IF r.raised THEN [kind |-> "raise", path |-> <<>>]
       ELSE [kind |-> "tour", path |-> r.path]

\* what lines 179-187 give for 51 points in a ring when the kept path is
\* the ring from its first point
ReturnedForRing ==
    HeuristicReturn(RingLookup(51), PointList(51),
                    [path |-> Some(PointList(51)),
                     dist |-> Total(RingLookup(51), PointList(51))])

\* C21: for more than 10 points, the constructions start from at most 5
\* points, no two of them the same and the first point among them; a
\* construction that fails leaves the kept path as it was; the kept path
\* is a refined path of the least total among those of the constructions
\* that succeeded; it is what is returned for more than 50 points, and
\* what is handed to 3-opt for at most 50.
C21_MultiStartKeepsLowest ==
    (Len(t_points) > 10 /\ t_pc \in {"heuristic", "done"}) =>
        /\ t_attempts.turns <= 5
        /\ Cardinality(StartingPoints) = t_attempts.turns
        /\ t_points[1] \in StartingPoints
        /\ (t_best.path = None) <=> ~t_completed
        /\ (t_best.path = None) <=> (t_attempts.lowest = None)
        /\ t_best.path # None =>
              /\ IsPermutation(Val(t_best.path), t_points)
              /\ Val(t_best.path)[1] \in StartingPoints
              /\ AllEdgesKnown(t_distances, Val(t_best.path))
              /\ Total(t_distances, Val(t_best.path)) = Val(t_attempts.lowest)
        /\ (t_pc = "done" /\ t_best.path # None) =>
              t_result = IF Len(t_points) > 50
                         THEN [kind |-> "tour", path |-> Val(t_best.path)]
                         ELSE AfterThreeOpt(Val(t_best.path))
        /\ ReturnedForRing = [kind |-> "tour", path |-> PointList(51)]

\* five constructions for 11 points, one of which failed, and the path
\* kept, handed to 3-opt, is of a construction that started after the first
C21_Witness ==
    /\ t_pc = "done"
    /\ Len(t_points) = HeuristicMinPoints
    /\ t_attempts.turns = 5
    /\ t_attempts.failed
    /\ t_best.path # None
    /\ Val(t_best.path)[1] # t_points[1]
    /\ t_result = AfterThreeOpt(Val(t_best.path))

----------------------------------------------------------------------------
(* Pairs without a path in the tours of solve_tsp, under SpecJobs           *)

\* the distance that the file of the map holds for a and b, in the order
\* given or in the other one, read as handle_tsp reads it
StoredDistance(mapid, a, b) ==
    Lookup(load_distances(Val(j_files[mapid])), a, b)

\* the tours published for the tour request delivered last
PublishedTours ==
    {Val(message.point_of_interest) :
        message \in {x \in TourOutcomes(j_last.trace) : x.status = "complete"}}

\* C22: against the distances process_map stored for a grid, no tour
\* returned by solve_tsp has two consecutive points whose stored distance
\* is the no-path value -1.
C22_NoTourThroughNoPath ==
    (TourRequested /\ ~DatasetNotFound) =>
        \A path \in PublishedTours :
            \A i \in 1 .. Len(path) - 1 :
                StoredDistance(FileName(j_last.body.mapid), path[i],
                               path[i + 1])
                    # Some(-1)

====
